---- MODULE Spec2Model ----
(***************************************************************************)
(* The OBO-in-OWL decoder of internal/owl: the token dispatcher, the       *)
(* OWL-to-RDF mapper, the statement stream with identifier assignment and  *)
(* duplicate suppression, and the namespace compactor.                     *)
(*                                                                         *)
(* Go strings are TLA+ strings; TLC evaluates Len, \o and SubSeq on them.  *)
(* A call of the exported API is one action.  The XML input is not fixed   *)
(* in advance: every read of a token chooses the token, so that a run of   *)
(* the model stands for every document that begins with the tokens read    *)
(* so far.                                                                 *)
(***************************************************************************)
EXTENDS Integers, Sequences, FiniteSets, TLC

VARIABLES
    xml,         \* dec.xml: the token source, [state, nread]
    namespaces,  \* dec.namespaces: sequence of xml.Attr, <<>> is nil
    strings,     \* dec.strings: [nil, tab], the intern store
    ids,         \* dec.ids: function from term text to UID
    curr,        \* dec.curr: index (from 0) of the next buffered statement
    buf,         \* dec.buf: the pending statements, NilStmt once taken
    seen,        \* dec.seen: set of UID triples already returned
    phase,       \* "init", "live", "failed" (NewDecoder returned an error), "crashed"
    res,         \* what the last call returned: [op, err, stmt]
    out,         \* history: the statements returned so far as Unmarshal made them, in order
    from,        \* history: for each entry of buf, the element it was mapped from
    root,        \* history: the first start element read from the current stream
    stream,      \* history: number of the current stream (1 after NewDecoder)
    lastTok,     \* history: the token the last call read last, NoToken if it read none
    produced,    \* history: origins of the statements stored into buf
    dropped,     \* history: the statements suppressed as duplicates, with their origins
    discarded,   \* history: the statements discarded by Reset, with their origins
    failed,      \* history: the elements (stream, token) whose mapping failed
    unknown,     \* history: the start elements (stream, token) of no known kind
    reads,       \* history: number of tokens read in the session
    atReset,     \* history: the session when the last successful Reset was called
    pure,        \* a call of the mapper or of the compactor on its own: [fn, arg, val]
    doc          \* the documents the streams of the session are taken from

vars == <<xml, namespaces, strings, ids, curr, buf, seen, phase, res, out, from,
          root, stream, lastTok, produced, dropped, discarded, failed, unknown,
          atReset, reads, pure, doc>>

-----------------------------------------------------------------------------
(* Bounds of the model. *)

\* tokens read in one session, over all its streams, before the input ends
MaxToks == 4
\* Reset calls in one session
MaxResets == 1
\* scalar children of one element
MaxScalars == 2
\* subClassOf children of one Class
MaxSubClassOf == 2
\* Description members, and Restriction members, of one intersectionOf
MaxMembers == 2
\* Description members of one propertyChainAxiom
MaxChain == 3
\* hasDbXref children of one Axiom
MaxLinks == 2

-----------------------------------------------------------------------------
(* Strings. *)

HasPrefix(s, p) == Len(p) <= Len(s) /\ SubSeq(s, 1, Len(p)) = p

TrimPrefix(s, p) == IF HasPrefix(s, p) THEN SubSeq(s, Len(p) + 1, Len(s)) ELSE s

\* strings.TrimSpace(s) == ""
IsBlankText(s) == \A i \in 1..Len(s) : SubSeq(s, i, i) = " "

CharAt(s, i) == SubSeq(s, i, i)

-----------------------------------------------------------------------------
(* Terms and statements (gonum rdf.Term, rdf.Statement as the decoder uses *)
(* them).  A Term is [Value, UID]; Value is the N-Triples text of the term.*)

\* characters that end a scheme or may not occur in an IRI
IRIBadChars == {" ", "<", ">", "\"", "{", "}", "|", "^", "\\"}

SchemeStop == {":", "/", "?", "#"}

\* the text is a digest as blankLabel renders it (hexadecimal digits in the code)
IsDigest(s) == HasPrefix(s, "md5(") /\ CharAt(s, Len(s)) = ")"

\* the IRI is valid and includes a scheme
checkIRIText(iri) ==
    /\ ~IsDigest(iri)
    /\ \A i \in 1..Len(iri) : CharAt(iri, i) \notin IRIBadChars
    /\ LET stops == {i \in 1..Len(iri) : CharAt(iri, i) \in SchemeStop}
       IN  /\ stops # {}
           /\ LET first == CHOOSE i \in stops : \A j \in stops : i <= j
              IN  first > 1 /\ CharAt(iri, first) = ":"

\* a blank node label: not empty, no punctuation of IRIs, no space
checkLabelText(label) ==
    \/ IsDigest(label)
    \/ /\ Len(label) > 0
       /\ \A i \in 1..Len(label) :
             CharAt(label, i) \notin (IRIBadChars \cup SchemeStop)

\* rdf.NewIRITerm: [ok, Value]
NewIRITerm(iri) ==
    IF checkIRIText(iri)
    THEN [ok |-> TRUE, Value |-> "<" \o iri \o ">"]
    ELSE [ok |-> FALSE, Value |-> ""]

\* rdf.NewBlankTerm
NewBlankTerm(label) ==
    IF checkLabelText(label)
    THEN [ok |-> TRUE, Value |-> "_:" \o label]
    ELSE [ok |-> FALSE, Value |-> ""]

\* rdf.NewLiteralTerm: qual is "", a language tag "@..." or a datatype IRI
NewLiteralTerm(text, qual) ==
    IF qual = "" THEN [ok |-> TRUE, Value |-> "\"" \o text \o "\""]
    ELSE IF HasPrefix(qual, "@")
    THEN [ok |-> Len(qual) > 1, Value |-> "\"" \o text \o "\"" \o qual]
    ELSE IF checkIRIText(qual)
    THEN [ok |-> TRUE, Value |-> "\"" \o text \o "\"^^<" \o qual \o ">"]
    ELSE [ok |-> FALSE, Value |-> ""]

Term(value) == [Value |-> value, UID |-> 0]

Statement(s, p, o) == [Subject |-> Term(s), Predicate |-> Term(p), Object |-> Term(o)]

NilStmt == [nil |-> TRUE]

\* position of the last occurrence of character c in s, 0 when absent
RECURSIVE LastIndex(_, _, _)
LastIndex(s, c, i) ==
    IF i = 0 THEN 0
    ELSE IF CharAt(s, i) = c THEN i
    ELSE LastIndex(s, c, i - 1)

\* rdf.Term.Parts: [ok, text, qual, kind]
Parts(value) ==
    IF HasPrefix(value, "<") /\ Len(value) >= 2 /\ CharAt(value, Len(value)) = ">"
    THEN [ok |-> TRUE, text |-> SubSeq(value, 2, Len(value) - 1), qual |-> "",
          kind |-> "IRI"]
    ELSE IF HasPrefix(value, "_:")
    THEN [ok |-> TRUE, text |-> SubSeq(value, 3, Len(value)), qual |-> "",
          kind |-> "Blank"]
    ELSE IF HasPrefix(value, "\"") /\ LastIndex(value, "\"", Len(value)) > 1
    THEN LET q    == LastIndex(value, "\"", Len(value))
             rest == SubSeq(value, q + 1, Len(value))
         IN  [ok |-> TRUE, text |-> SubSeq(value, 2, q - 1),
              qual |-> IF HasPrefix(rest, "^^<")
                       THEN SubSeq(rest, 4, Len(rest) - 1)
                       ELSE rest,
              kind |-> "Literal"]
    ELSE [ok |-> FALSE, text |-> "", qual |-> "", kind |-> "Invalid"]

-----------------------------------------------------------------------------
(* The OWL-to-RDF mapper (model.go).  A collect method appends to dst and  *)
(* may panic part way; the value threaded here is [dst, fail], where fail  *)
(* is "none", "error" (mustTerm panicked with an error value) or "string"  *)
(* (a panic with a string value).  Once fail is set nothing more happens.  *)

RDFNS == "http://www.w3.org/1999/02/22-rdf-syntax-ns#"

rdfType == "<" \o RDFNS \o "type>"

rdfFirst == "<" \o RDFNS \o "first>"

rdfRest == "<" \o RDFNS \o "rest>"

rdfNil == "<" \o RDFNS \o "nil>"

firstName == [Space |-> RDFNS, Local |-> "first"]

NoName == [Space |-> "", Local |-> ""]

\* the zero value of rdfDataType
NoData == [XMLName |-> NoName, Resource |-> "", Text |-> "", Datatype |-> ""]

QName(n) == n.Space \o n.Local

\* mustTerm over the terms a step builds before it appends
Must(st, need) ==
    IF st.fail # "none" THEN st
    ELSE IF \E i \in 1..Len(need) : ~need[i].ok THEN [st EXCEPT !.fail = "error"]
    ELSE st

\* panic(fmt.Sprintf(...))
FailString(st) == IF st.fail # "none" THEN st ELSE [st EXCEPT !.fail = "string"]

\* dst = append(dst, ...)
Push(st, stmts) == IF st.fail # "none" THEN st ELSE [st EXCEPT !.dst = @ \o stmts]

RECURSIVE Join(_)
Join(parts) == IF parts = <<>> THEN "" ELSE Head(parts) \o Join(Tail(parts))

\* hex(md5(parts written one after the other)); the digest is taken to be
\* free of collisions and is rendered as its input in brackets
blankLabel(parts) == "md5(" \o Join(parts) \o ")"

NoClaim == [pred |-> "", obj |-> "", qual |-> "", kind |-> "Invalid"]

\* rdfDataType.claim dropping the datatype of a literal
dataClaimUntyped(r) ==
    IF ~IsBlankText(r.Resource)
    THEN [pred |-> QName(r.XMLName), obj |-> r.Resource, qual |-> "", kind |-> "IRI"]
    ELSE IF ~IsBlankText(r.Datatype)
    THEN [pred |-> QName(r.XMLName), obj |-> r.Text, qual |-> "", kind |-> "Literal"]
    ELSE NoClaim

\* rdfDataType.claim testing the datatype before the resource
dataClaimDatatypeFirst(r) ==
    IF ~IsBlankText(r.Datatype)
    THEN [pred |-> QName(r.XMLName), obj |-> r.Text, qual |-> r.Datatype,
          kind |-> "Literal"]
    ELSE IF ~IsBlankText(r.Resource)
    THEN [pred |-> QName(r.XMLName), obj |-> r.Resource, qual |-> "", kind |-> "IRI"]
    ELSE NoClaim

\* rdfDataType.claim
dataClaim(r) ==
    IF ~IsBlankText(r.Resource)
    THEN [pred |-> QName(r.XMLName), obj |-> r.Resource, qual |-> "", kind |-> "IRI"]
    ELSE IF ~IsBlankText(r.Datatype)
    THEN [pred |-> QName(r.XMLName), obj |-> r.Text, qual |-> r.Datatype,
          kind |-> "Literal"]
    ELSE NoClaim

\* subClassOf.claim stating the resource as a literal
subClassOfClaimLiteral(s) ==
    IF s.Resource = "" THEN NoClaim
    ELSE [pred |-> QName(s.XMLName), obj |-> s.Resource, qual |-> "", kind |-> "Literal"]

\* subClassOf.claim
subClassOfClaim(s) ==
    IF s.Resource = "" THEN NoClaim
    ELSE [pred |-> QName(s.XMLName), obj |-> s.Resource, qual |-> "", kind |-> "IRI"]

\* description.claim
descriptionClaim(e) ==
    IF e.About = "" THEN NoClaim
    ELSE [pred |-> QName(e.XMLName), obj |-> e.About, qual |-> "", kind |-> "IRI"]

\* the object of a claim: an IRI or a literal
claimObject(c) ==
    IF c.kind = "IRI" THEN NewIRITerm(c.obj) ELSE NewLiteralTerm(c.obj, c.qual)

\* if kind != rdf.Invalid { subj, pred, obj := ...; dst = append(dst, s) }
appendClaim(st, about, c) ==
    IF c.kind = "Invalid" THEN st
    ELSE LET subj == NewIRITerm(about)
             pred == NewIRITerm(c.pred)
             obj  == claimObject(c)
         IN  Push(Must(st, <<subj, pred, obj>>),
                  <<Statement(subj.Value, pred.Value, obj.Value)>>)

labelType(st, about, name) ==
    LET subj == NewIRITerm(about)
        typ  == NewIRITerm(QName(name))
    IN  Push(Must(st, <<subj, typ>>), <<Statement(subj.Value, rdfType, typ.Value)>>)

RECURSIVE collectSlice(_, _, _)
collectSlice(st, about, es) ==
    IF es = <<>> THEN st
    ELSE collectSlice(appendClaim(st, about, dataClaim(Head(es))), about, Tail(es))

\* collect: every []rdfDataType field of the struct, in field order
RECURSIVE collectFields(_, _, _)
collectFields(st, about, fields) ==
    IF fields = <<>> THEN st
    ELSE collectFields(collectSlice(st, about, Head(fields)), about, Tail(fields))

collect(st, about, v) == collectFields(st, about, v.scalars)

\* restriction.collect labelling the blank node by what the buffer holds
restrictionCollectCounted(st, r, about, in) ==
    LET iri    == NewIRITerm(about)
        subj   == IF iri.ok THEN iri ELSE NewBlankTerm(about)
        parent == NewIRITerm(QName(in))
        typ    == NewIRITerm(QName(r.XMLName))
        label  == blankLabel(<<IF st.dst = <<>> THEN "" ELSE "n",
                               r.XMLName.Space, r.XMLName.Local, about,
                               in.Space, in.Local,
                               r.OnProperty.Resource, r.OnProperty.Text,
                               r.SomeValuesFrom.Resource, r.SomeValuesFrom.Text>>)
        blank  == NewBlankTerm(label)
        st1    == Push(Must(st, <<subj, parent, typ, blank>>),
                       <<Statement(subj.Value, parent.Value, blank.Value),
                         Statement(blank.Value, rdfType, typ.Value)>>)
        claimOn(s, d) ==
            LET c == dataClaim(d) IN
            IF c.kind = "Invalid" THEN s
            ELSE LET pred == NewIRITerm(c.pred)
                     obj  == claimObject(c)
                 IN  Push(Must(s, <<pred, obj>>),
                          <<Statement(blank.Value, pred.Value, obj.Value)>>)
    IN  claimOn(claimOn(st1, r.OnProperty), r.SomeValuesFrom)

\* restriction.collect without the type statement of the blank node
restrictionCollectUntyped(st, r, about, in) ==
    LET iri    == NewIRITerm(about)
        subj   == IF iri.ok THEN iri ELSE NewBlankTerm(about)
        parent == NewIRITerm(QName(in))
        label  == blankLabel(<<r.XMLName.Space, r.XMLName.Local, about,
                               in.Space, in.Local,
                               r.OnProperty.Resource, r.OnProperty.Text,
                               r.SomeValuesFrom.Resource, r.SomeValuesFrom.Text>>)
        blank  == NewBlankTerm(label)
        st1    == Push(Must(st, <<subj, parent, blank>>),
                       <<Statement(subj.Value, parent.Value, blank.Value)>>)
        claimOn(s, d) ==
            LET c == dataClaim(d) IN
            IF c.kind = "Invalid" THEN s
            ELSE LET pred == NewIRITerm(c.pred)
                     obj  == claimObject(c)
                 IN  Push(Must(s, <<pred, obj>>),
                          <<Statement(blank.Value, pred.Value, obj.Value)>>)
    IN  claimOn(claimOn(st1, r.OnProperty), r.SomeValuesFrom)

\* restriction.collect
restrictionCollect(st, r, about, in) ==
    LET iri    == NewIRITerm(about)
        subj   == IF iri.ok THEN iri ELSE NewBlankTerm(about)
        parent == NewIRITerm(QName(in))
        typ    == NewIRITerm(QName(r.XMLName))
        label  == blankLabel(<<r.XMLName.Space, r.XMLName.Local, about,
                               in.Space, in.Local,
                               r.OnProperty.Resource, r.OnProperty.Text,
                               r.SomeValuesFrom.Resource, r.SomeValuesFrom.Text>>)
        blank  == NewBlankTerm(label)
        st1    == Push(Must(st, <<subj, parent, typ, blank>>),
                       <<Statement(subj.Value, parent.Value, blank.Value),
                         Statement(blank.Value, rdfType, typ.Value)>>)
        \* the subject of the two claims is the blank node, which is no IRI:
        \* the statement is built from the term, not from its text
        claimOn(s, d) ==
            LET c == dataClaim(d) IN
            IF c.kind = "Invalid" THEN s
            ELSE LET pred == NewIRITerm(c.pred)
                     obj  == claimObject(c)
                 IN  Push(Must(s, <<pred, obj>>),
                          <<Statement(blank.Value, pred.Value, obj.Value)>>)
    IN  claimOn(claimOn(st1, r.OnProperty), r.SomeValuesFrom)

\* restrictions.collect
RECURSIVE restrictionsCollect(_, _, _, _)
restrictionsCollect(st, l, about, in) ==
    IF l = <<>> THEN st
    ELSE restrictionsCollect(restrictionCollect(st, Head(l), about, in),
                             Tail(l), about, in)

\* subClassOfs.collect
RECURSIVE subClassOfsCollect(_, _, _)
subClassOfsCollect(st, l, about) ==
    IF l = <<>> THEN st
    ELSE LET c   == Head(l)
             st1 == appendClaim(st, about, subClassOfClaim(c))
             st2 == restrictionsCollect(st1, c.Restriction, about, c.XMLName)
         IN  subClassOfsCollect(st2, Tail(l), about)

\* equivalentClasses.collect: the loop over intersectionOf.Description;
\* acc is [st, iLabel, iBlank, dLabel], i counts from 1
RECURSIVE descriptionLoop(_, _, _)
descriptionLoop(acc, io, i) ==
    IF i > Len(io.Description) THEN acc
    ELSE LET d       == io.Description[i]
             dLabel  == blankLabel(<<d.XMLName.Space, d.XMLName.Local,
                                     acc.iLabel, d.About, acc.dLabel>>)
             c       == descriptionClaim(d)
             obj     == claimObject(c)
             st1     == IF c.kind = "Invalid" THEN acc.st
                        ELSE Push(Must(acc.st, <<obj>>),
                                  <<Statement(acc.iBlank, rdfFirst, obj.Value)>>)
             iLabel1 == blankLabel(<<acc.iLabel>>)
             next1   == NewBlankTerm(iLabel1)
             st2     == Push(Must(st1, <<next1>>),
                             <<Statement(acc.iBlank, rdfRest, next1.Value)>>)
             st3     == IF i - 1 < Len(io.Restriction)
                        THEN restrictionCollect(st2, io.Restriction[i], iLabel1,
                                                firstName)
                        ELSE st2
             more    == i - 1 < Len(io.Description) - 1
             iLabel2 == IF more THEN blankLabel(<<iLabel1>>) ELSE iLabel1
             next2   == NewBlankTerm(iLabel2)
             st4     == IF more
                        THEN Push(Must(st3, <<next2>>),
                                  <<Statement(next1.Value, rdfRest, next2.Value)>>)
                        ELSE Push(st3, <<Statement(next1.Value, rdfRest, rdfNil)>>)
         IN  descriptionLoop([st |-> st4, iLabel |-> iLabel2,
                              iBlank |-> next2.Value, dLabel |-> dLabel],
                             io, i + 1)

\* equivalentClasses.collect: the loop over class.IntersectionOf, i from 1
RECURSIVE intersectionLoop(_, _, _, _, _, _)
intersectionLoop(st, ios, i, ecBlank, typ, cLabel) ==
    IF i > Len(ios) THEN st
    ELSE LET io     == ios[i]
             iLabel == blankLabel(<<io.XMLName.Space, io.XMLName.Local, cLabel,
                                    io.ParseType>>)
             iBlank == NewBlankTerm(iLabel)
             st1    == Must(st, <<iBlank>>)
             pred   == NewIRITerm(QName(io.XMLName))
             st2    == IF i = 1
                       THEN Push(Must(st1, <<pred>>),
                                 <<Statement(ecBlank, rdfType, typ),
                                   Statement(ecBlank, pred.Value, iBlank.Value)>>)
                       ELSE st1
             acc    == descriptionLoop([st |-> st2, iLabel |-> iLabel,
                                        iBlank |-> iBlank.Value, dLabel |-> ""],
                                       io, 1)
         IN  intersectionLoop(acc.st, ios, i + 1, ecBlank, typ, cLabel)

\* equivalentClasses.collect: the loop over equivalentClass.Class
RECURSIVE classLoop(_, _, _, _, _)
classLoop(st, classes, ecBlank, ecLabel, in) ==
    IF classes = <<>> THEN st
    ELSE LET class  == Head(classes)
             typ    == NewIRITerm(QName(in))
             st1    == Push(Must(st, <<typ>>),
                            <<Statement(ecBlank, rdfType, typ.Value)>>)
             cLabel == blankLabel(<<class.XMLName.Space, class.XMLName.Local,
                                    ecLabel>>)
             st2    == intersectionLoop(st1, class.IntersectionOf, 1, ecBlank,
                                        typ.Value, cLabel)
         IN  classLoop(st2, Tail(classes), ecBlank, ecLabel, in)

\* equivalentClasses.collect: the loop over the equivalentClass entries
RECURSIVE equivalentLoop(_, _, _, _, _, _)
equivalentLoop(st, l, about, in, subj, ecLabel0) ==
    IF l = <<>> THEN st
    ELSE LET ec      == Head(l)
             ecLabel == blankLabel(<<ec.XMLName.Space, ec.XMLName.Local, about,
                                     in.Space, in.Local, ecLabel0>>)
             pred    == NewIRITerm(QName(ec.XMLName))
             ecBlank == NewBlankTerm(ecLabel)
             st1     == Push(Must(st, <<pred, ecBlank>>),
                             <<Statement(subj, pred.Value, ecBlank.Value)>>)
             st2     == classLoop(st1, ec.Class, ecBlank.Value, ecLabel, in)
         IN  equivalentLoop(st2, Tail(l), about, in, subj, ecLabel)

\* equivalentClasses.collect
equivalentClassesCollect(st, l, about, in) ==
    IF l = <<>> THEN st
    ELSE LET subj == NewIRITerm(about)
             typ  == NewIRITerm(QName(in))
             st1  == Push(Must(st, <<subj, typ>>),
                          <<Statement(subj.Value, rdfType, typ.Value)>>)
         IN  equivalentLoop(st1, l, about, in, subj.Value, "")

\* the loop of propertyChainAxiom.collect never closing the list with rdf:nil
RECURSIVE chainLoopOpen(_, _, _, _, _)
chainLoopOpen(st, ds, i, blank, label) ==
    IF i > Len(ds) THEN st
    ELSE LET obj    == NewIRITerm(ds[i].About)
             st1    == Push(Must(st, <<obj>>),
                            <<Statement(blank, rdfFirst, obj.Value)>>)
             label1 == blankLabel(<<label>>)
             next   == NewBlankTerm(label1)
             st2    == Push(Must(st1, <<next>>),
                            <<Statement(blank, rdfRest, next.Value)>>)
         IN  chainLoopOpen(st2, ds, i + 1, next.Value, label1)

\* propertyChainAxiom.collect: the loop over c.Description, i from 1
RECURSIVE chainLoop(_, _, _, _, _)
chainLoop(st, ds, i, blank, label) ==
    IF i > Len(ds) THEN st
    ELSE LET obj    == NewIRITerm(ds[i].About)
             st1    == Push(Must(st, <<obj>>),
                            <<Statement(blank, rdfFirst, obj.Value)>>)
             more   == i - 1 < Len(ds) - 1
             label1 == IF more THEN blankLabel(<<label>>) ELSE label
             next   == NewBlankTerm(label1)
             st2    == IF more
                       THEN Push(Must(st1, <<next>>),
                                 <<Statement(blank, rdfRest, next.Value)>>)
                       ELSE Push(st1, <<Statement(blank, rdfRest, rdfNil)>>)
         IN  chainLoop(st2, ds, i + 1, IF more THEN next.Value ELSE blank, label1)

\* a nil *propertyChainAxiom
NilChain == [nil |-> TRUE]

\* propertyChainAxiom.collect
propertyChainAxiomCollect(st, c, about) ==
    IF c = NilChain THEN st
    ELSE LET label == blankLabel(<<about, QName(c.XMLName)>>)
             subj  == NewIRITerm(about)
             pred  == NewIRITerm(QName(c.XMLName))
             blank == NewBlankTerm(label)
             st1   == Push(Must(st, <<subj, pred, blank>>),
                           <<Statement(subj.Value, pred.Value, blank.Value)>>)
         IN  chainLoop(st1, c.Description, 1, blank.Value, label)

\* the claim of the ID field, which annotationProperty, class and
\* objectProperty make before labelType
idClaim(st, v) == appendClaim(st, v.About, dataClaim(v.ID))

\* annotationProperty.collect
annotationPropertyCollect(st, a) ==
    collect(labelType(idClaim(st, a), a.About, a.XMLName), a.About, a)

\* class.collect
classCollect(st, c) ==
    LET st1 == collect(labelType(idClaim(st, c), c.About, c.XMLName), c.About, c)
        st2 == subClassOfsCollect(st1, c.SubClassOf, c.About)
    IN  equivalentClassesCollect(st2, c.EquivalentClass, c.About, c.XMLName)

\* objectProperty.collect
objectPropertyCollect(st, o) ==
    LET st1 == collect(labelType(idClaim(st, o), o.About, o.XMLName), o.About, o)
    IN  propertyChainAxiomCollect(st1, o.PropertyChainAxiom, o.About)

\* ontology.collect
ontologyCollect(st, o) == collect(labelType(st, o.About, o.XMLName), o.About, o)

\* axiom.collect: the statements of the label, hasDbXref and comment children
RECURSIVE axiomLinks(_, _, _)
axiomLinks(st, blank, links) ==
    IF links = <<>> THEN st
    ELSE LET p    == Head(links)
             pred == NewIRITerm(QName(p.XMLName))
             c    == dataClaim(p)
             st1  == Must(st, <<pred>>)
             st2  == IF c.kind = "Invalid" THEN FailString(st1)
                     ELSE Must(st1, <<claimObject(c)>>)
         IN  axiomLinks(Push(st2, <<Statement(blank, pred.Value,
                                              claimObject(c).Value)>>),
                        blank, Tail(links))

\* axiom.collect taking the children in the order of the struct fields
axiomCollectFieldOrder(st, a) ==
    LET label        == blankLabel(<<a.Source.Resource, a.Property.Resource,
                                     a.Target.Resource, a.Target.Text,
                                     a.Target.Datatype>>)
        blank        == NewBlankTerm(label)
        typ          == NewIRITerm(QName(a.XMLName))
        source       == NewIRITerm(a.Source.Resource)
        sourcePred   == NewIRITerm(QName(a.Source.XMLName))
        property     == NewIRITerm(a.Property.Resource)
        propertyPred == NewIRITerm(QName(a.Property.XMLName))
        c            == dataClaim(a.Target)
        target       == claimObject(c)
        targetPred   == NewIRITerm(QName(a.Target.XMLName))
        st1 == Must(st, <<blank, typ, source, sourcePred, property, propertyPred>>)
        st2 == IF c.kind = "Invalid" THEN FailString(st1) ELSE Must(st1, <<target>>)
        st3 == Push(Must(st2, <<targetPred>>),
                    <<Statement(blank.Value, rdfType, typ.Value),
                      Statement(blank.Value, sourcePred.Value, source.Value),
                      Statement(blank.Value, propertyPred.Value, property.Value),
                      Statement(blank.Value, targetPred.Value, target.Value)>>)
    IN  axiomLinks(st3, blank.Value, a.Comment \o a.HasDbXref \o a.Label)

\* axiom.collect
axiomCollect(st, a) ==
    LET label        == blankLabel(<<a.Source.Resource, a.Property.Resource,
                                     a.Target.Resource, a.Target.Text,
                                     a.Target.Datatype>>)
        blank        == NewBlankTerm(label)
        typ          == NewIRITerm(QName(a.XMLName))
        source       == NewIRITerm(a.Source.Resource)
        sourcePred   == NewIRITerm(QName(a.Source.XMLName))
        property     == NewIRITerm(a.Property.Resource)
        propertyPred == NewIRITerm(QName(a.Property.XMLName))
        c            == dataClaim(a.Target)
        target       == claimObject(c)
        targetPred   == NewIRITerm(QName(a.Target.XMLName))
        st1 == Must(st, <<blank, typ, source, sourcePred, property, propertyPred>>)
        st2 == IF c.kind = "Invalid" THEN FailString(st1) ELSE Must(st1, <<target>>)
        st3 == Push(Must(st2, <<targetPred>>),
                    <<Statement(blank.Value, rdfType, typ.Value),
                      Statement(blank.Value, sourcePred.Value, source.Value),
                      Statement(blank.Value, propertyPred.Value, property.Value),
                      Statement(blank.Value, targetPred.Value, target.Value)>>)
    IN  axiomLinks(st3, blank.Value, a.Label \o a.HasDbXref \o a.Comment)

-----------------------------------------------------------------------------
(* The XML input.  A token is what xml.Decoder.Token returns, and for a    *)
(* start element of a mapped kind also what DecodeElement makes of the     *)
(* element: the decoded struct v, or a syntax error inside the element.    *)

XMLNamespace == "http://www.w3.org/XML/1998/namespace"

OWL == "owl:"

RDFS == "rdfs:"

XSDString == "xsd:string"

Data(space, local, resource, text, datatype) ==
    [XMLName |-> [Space |-> space, Local |-> local], Resource |-> resource,
     Text |-> text, Datatype |-> datatype]

LabelFoo == Data(RDFS, "label", "", "Foo", XSDString)

\* <owl:Class rdf:about="http://x/C"> with the same label twice
ClassC ==
    [XMLName |-> [Space |-> OWL, Local |-> "Class"], About |-> "http://x/C",
     ID |-> NoData, scalars |-> <<<<LabelFoo, LabelFoo>>>>,
     EquivalentClass |-> <<>>, SubClassOf |-> <<>>]

\* <owl:Class rdf:about="http://x/D"> with <rdfs:subClassOf rdf:resource="http://x/C"/>
ClassD ==
    [XMLName |-> [Space |-> OWL, Local |-> "Class"], About |-> "http://x/D",
     ID |-> NoData, scalars |-> <<>>, EquivalentClass |-> <<>>,
     SubClassOf |-> <<[XMLName |-> [Space |-> RDFS, Local |-> "subClassOf"],
                       Resource |-> "http://x/C", Restriction |-> <<>>]>>]

\* a class whose label has a relative resource: the type statement is built,
\* then the term of the label fails
ClassBad ==
    [XMLName |-> [Space |-> OWL, Local |-> "Class"], About |-> "http://x/C",
     ID |-> NoData, scalars |-> <<<<Data(RDFS, "label", "rel", "", "")>>>>,
     EquivalentClass |-> <<>>, SubClassOf |-> <<>>]

\* an axiom whose annotatedTarget has neither resource nor datatype
AxiomNoTarget ==
    [XMLName |-> [Space |-> OWL, Local |-> "Axiom"],
     Source |-> Data(OWL, "annotatedSource", "http://x/C", "", ""),
     Property |-> Data(OWL, "annotatedProperty", "rdfs:label", "", ""),
     Target |-> Data(OWL, "annotatedTarget", "", "Foo", ""),
     Label |-> <<>>, HasDbXref |-> <<>>, Comment |-> <<>>]

Attr(space, local, value) ==
    [Name |-> [Space |-> space, Local |-> local], Value |-> value]

Start(name, attr, decode, v) ==
    [type |-> "StartElement", Name |-> name, Attr |-> attr, decode |-> decode, v |-> v]

\* the attribute lists of the RDF start elements of the model
RDFAttrs ==
    { <<>>,
      <<Attr("xmlns", "obo", "http://x/"), Attr(XMLNamespace, "base", "http://x/go")>> }

RDFTokens == {Start([Space |-> "rdf:", Local |-> "RDF"], a, "ok", NoData) : a \in RDFAttrs}

ElementTokens ==
    {Start(v.XMLName, <<>>, "ok", v) : v \in {ClassC, ClassD, ClassBad, AxiomNoTarget}}
    \cup {Start(ClassD.XMLName, <<>>, "err", NoData)}

\* a start element the dispatcher does not know
UnknownToken == Start([Space |-> OWL, Local |-> "NamedIndividual"], <<>>, "ok", NoData)

\* xml.EndElement, xml.CharData, xml.Comment, xml.Directive, xml.ProcInst
OtherToken == [type |-> "Other"]

\* Token returned io.EOF
EOFToken == [type |-> "EOF"]

\* Token returned another error: a syntax error or a failure of the reader
ErrToken == [type |-> "Err"]

NoToken == [type |-> "None"]

\* <owl:Class rdf:about="http://x/C"> with a label whose datatype is in a
\* declared namespace, a comment whose datatype is in none, and a
\* subClassOf with the resource obo:C and a Restriction
ClassL ==
    [XMLName |-> [Space |-> OWL, Local |-> "Class"], About |-> "http://x/C",
     ID |-> NoData,
     scalars |-> <<<<Data(RDFS, "label", "", "Foo", "http://x/string"),
                     Data(RDFS, "comment", "", "Bar", XSDString)>>>>,
     EquivalentClass |-> <<>>,
     SubClassOf |-> <<[XMLName |-> [Space |-> RDFS, Local |-> "subClassOf"],
                       Resource |-> "obo:C",
                       Restriction |->
                           <<[XMLName |-> [Space |-> OWL, Local |-> "Restriction"],
                              OnProperty |-> Data(OWL, "onProperty", "http://x/p", "", ""),
                              SomeValuesFrom |->
                                  Data(OWL, "someValuesFrom", "http://x/C", "", "")]>>]>>]

\* the tokens of the documents of the session: plain documents, or
\* documents of literals, blank nodes and qualified names
Tokens ==
    IF doc = "plain"
    THEN RDFTokens \cup ElementTokens \cup {UnknownToken, OtherToken}
    ELSE RDFTokens \cup {Start(ClassL.XMLName, <<>>, "ok", ClassL)}

\* what the next call of Token can return: the end and an error stay, and
\* the model ends the input once MaxToks tokens are read
NextToks(d) ==
    IF d.xml.state = "eof" THEN {EOFToken}
    ELSE IF d.xml.state = "err" THEN {ErrToken}
    ELSE IF d.reads >= MaxToks THEN {EOFToken, ErrToken}
    ELSE Tokens \cup {EOFToken, ErrToken}

\* xml.NewDecoder(r)
NewXML == [state |-> "open", nread |-> 0]

-----------------------------------------------------------------------------
(* The decoder (owl.go).  d is the Decoder with the history the properties *)
(* need; an operator that can end in several ways yields the set of its    *)
(* outcomes.                                                               *)

EmptyMap == [x \in {} |-> 0]

\* make(store), and the nil store
NewStore == [nil |-> FALSE, tab |-> {}]

NilStore == [nil |-> TRUE, tab |-> {}]

NoRoot == [none |-> TRUE]

\* store.intern: [store, panic]; writing to a nil map panics
intern(is, s) ==
    IF s = "" THEN [store |-> is, panic |-> FALSE]
    ELSE IF s \in is.tab THEN [store |-> is, panic |-> FALSE]
    ELSE IF is.nil THEN [store |-> is, panic |-> TRUE]
    ELSE [store |-> [is EXCEPT !.tab = @ \cup {s}], panic |-> FALSE]

\* idFor numbering the terms from zero
idForFromZero(m, s) ==
    IF s \in DOMAIN m THEN m ELSE m @@ (s :> Cardinality(DOMAIN m))

\* idFor counting the entries after the new one is made
idForAfterInsert(m, s) ==
    IF s \in DOMAIN m THEN m ELSE m @@ (s :> Cardinality(DOMAIN m) + 2)

\* Decoder.idFor: the map after the call; the id is the map's value at s
idFor(m, s) ==
    IF s \in DOMAIN m THEN m ELSE m @@ (s :> Cardinality(DOMAIN m) + 1)

\* the sort with Less reversed: the shortest value first
RECURSIVE byLengthAscending(_, _)
byLengthAscending(a, left) ==
    IF left = {} THEN {<<>>}
    ELSE UNION { { <<a[i]>> \o rest : rest \in byLengthAscending(a, left \ {i}) } :
                 i \in {i \in left : \A j \in left : Len(a[i].Value) <= Len(a[j].Value)} }

\* sort.Sort(byLength(a)): every arrangement with the values in order of
\* non-increasing length (the sort is not stable)
RECURSIVE byLength(_, _)
byLength(a, left) ==
    IF left = {} THEN {<<>>}
    ELSE UNION { { <<a[i]>> \o rest : rest \in byLength(a, left \ {i}) } :
                 i \in {i \in left : \A j \in left : Len(a[i].Value) >= Len(a[j].Value)} }

\* the RDF case of fillBuffer: the attributes, with the xml namespace renamed
RECURSIVE rdfAttrs(_)
rdfAttrs(attr) ==
    IF attr = <<>> THEN <<>>
    ELSE LET a == Head(attr)
         IN  <<IF a.Name.Space = XMLNamespace THEN [a EXCEPT !.Name.Space = "xml"] ELSE a>>
             \o rdfAttrs(Tail(attr))

\* the mapper of a start element's local name
collectOf(local, st, v) ==
    CASE local = "AnnotationProperty" -> annotationPropertyCollect(st, v)
      [] local = "Axiom" -> axiomCollect(st, v)
      [] local = "Class" -> classCollect(st, v)
      [] local = "ObjectProperty" -> objectPropertyCollect(st, v)
      [] local = "Ontology" -> ontologyCollect(st, v)

Mapped == {"AnnotationProperty", "Axiom", "Class", "ObjectProperty", "Ontology"}

\* history: the origins of the statements n+1..m of the buffer
Origins(d, n, m) == [k \in 1..(m - n) |-> [stream |-> d.stream, tok |-> d.xml.nread, k |-> k]]

\* the buffer keeping what collect had appended when it panicked
storePartial(d, r) ==
    LET o == Origins(d, Len(d.buf), Len(r.dst))
    IN  [d |-> [d EXCEPT !.buf = r.dst, !.from = @ \o o,
                          !.produced = @ \cup {o[k] : k \in DOMAIN o},
                          !.failed = IF r.fail = "none" THEN @
                                     ELSE @ \cup {[stream |-> d.stream, tok |-> d.xml.nread]}],
         err |-> IF r.fail = "none" THEN "nil"
                 ELSE IF r.fail = "error" THEN "error" ELSE "panic"]

\* dec.buf = v.collect(dec.buf), with the panic of collect recovered
storeCollected(d, r) ==
    IF r.fail = "none"
    THEN LET o == Origins(d, Len(d.buf), Len(r.dst))
         IN  [d |-> [d EXCEPT !.buf = r.dst, !.from = @ \o o,
                               !.produced = @ \cup {o[k] : k \in DOMAIN o}],
              err |-> "nil"]
    ELSE [d |-> [d EXCEPT !.failed = @ \cup {[stream |-> d.stream, tok |-> d.xml.nread]}],
          err |-> IF r.fail = "error" THEN "error" ELSE "panic"]

\* the switch with an empty default case: an unknown element is skipped
dispatchSkipsUnknown(d, tok) ==
    IF tok.Name.Local \in Mapped
    THEN IF tok.decode = "err"
         THEN {[d |-> [d EXCEPT !.xml.state = "err"], err |-> "error"]}
         ELSE {storeCollected(d, collectOf(tok.Name.Local,
                                           [dst |-> d.buf, fail |-> "none"], tok.v))}
    ELSE IF tok.Name.Local = "RDF"
    THEN LET all == d.namespaces \o rdfAttrs(tok.Attr)
         IN  {[d |-> [d EXCEPT !.namespaces = ns], err |-> "nil"] :
                  ns \in byLength(all, DOMAIN all)}
    ELSE {[d |-> d, err |-> "nil"]}

\* the switch of fillBuffer on a start element
dispatch(d, tok) ==
    IF tok.Name.Local \in Mapped
    THEN IF tok.decode = "err"
         THEN {[d |-> [d EXCEPT !.xml.state = "err"], err |-> "error"]}
         ELSE {storeCollected(d, collectOf(tok.Name.Local,
                                           [dst |-> d.buf, fail |-> "none"], tok.v))}
    ELSE IF tok.Name.Local = "RDF"
    THEN LET all == d.namespaces \o rdfAttrs(tok.Attr)
         IN  {[d |-> [d EXCEPT !.namespaces = ns], err |-> "nil"] :
                  ns \in byLength(all, DOMAIN all)}
    ELSE {[d |-> d, err |-> "panic"]}

\* history: the token is read
Read(d, tok) ==
    [d EXCEPT !.lastTok = tok,
              !.reads = IF tok.type \in {"EOF", "Err"} THEN @ ELSE @ + 1,
              !.xml.nread = IF tok.type \in {"EOF", "Err"} THEN @ ELSE @ + 1,
              !.root = IF @ = NoRoot /\ tok.type = "StartElement"
                       THEN [Name |-> tok.Name, Attr |-> tok.Attr] ELSE @,
              !.unknown = IF tok.type = "StartElement"
                             /\ tok.Name.Local \notin Mapped \cup {"RDF"}
                          THEN @ \cup {[stream |-> d.stream, tok |-> d.xml.nread + 1]}
                          ELSE @]

\* Decoder.fillBuffer on the token read: the set of [d, err], err being
\* "nil", "EOF", "error" or "panic" (the panic left fillBuffer)
\* fillBuffer over a reader that can be read on after it reported io.EOF
fillBufferReadOn(d0, tok) ==
    LET d == Read(d0, tok) IN
    CASE tok.type = "EOF" ->
             {[d |-> [d EXCEPT !.strings = NilStore], err |-> "EOF"]}
      [] tok.type = "Err" ->
             {[d |-> [d EXCEPT !.xml.state = "err"], err |-> "error"]}
      [] tok.type = "StartElement" -> dispatch(d, tok)
      [] OTHER -> {[d |-> d, err |-> "nil"]}

fillBuffer(d0, tok) ==
    LET d == Read(d0, tok) IN
    CASE tok.type = "EOF" ->
             {[d |-> [d EXCEPT !.strings = NilStore, !.xml.state = "eof"], err |-> "EOF"]}
      [] tok.type = "Err" ->
             {[d |-> [d EXCEPT !.xml.state = "err"], err |-> "error"]}
      [] tok.type = "StartElement" -> dispatch(d, tok)
      [] OTHER -> {[d |-> d, err |-> "nil"]}

\* for dec.namespaces == nil { err := dec.fillBuffer(); ... }
RECURSIVE namespaceLoop(_)
namespaceLoop(d) ==
    IF d.namespaces # <<>> THEN {[d |-> d, err |-> "nil"]}
    ELSE UNION { UNION { IF f.err # "nil" THEN {f} ELSE namespaceLoop(f.d) :
                         f \in fillBuffer(d, tok) } : tok \in NextToks(d) }

\* NewDecoder
newDecoder(d) == namespaceLoop(d)

\* Reset with a new seen map
resetForgetsSeen(d) ==
    { IF f.err # "nil" THEN f
      ELSE [d |-> [f.d EXCEPT !.discarded =
                                  @ \cup {[origin |-> f.d.from[i], stmt |-> f.d.buf[i]] :
                                           i \in (f.d.curr + 1)..Len(f.d.buf)},
                              !.curr = 0, !.buf = <<>>, !.from = <<>>,
                              !.strings = NewStore,
                              !.seen = {},
                              !.atReset = [ok |-> TRUE, stream |-> f.d.stream,
                                           ids |-> d.ids, seen |-> d.seen,
                                           nout |-> d.nout]],
            err |-> "nil"] :
      f \in namespaceLoop([d EXCEPT !.namespaces = <<>>, !.xml = NewXML,
                                    !.stream = @ + 1, !.root = NoRoot]) }

\* Reset with a new ids map
resetForgetsIds(d) ==
    { IF f.err # "nil" THEN f
      ELSE [d |-> [f.d EXCEPT !.discarded =
                                  @ \cup {[origin |-> f.d.from[i], stmt |-> f.d.buf[i]] :
                                           i \in (f.d.curr + 1)..Len(f.d.buf)},
                              !.curr = 0, !.buf = <<>>, !.from = <<>>,
                              !.strings = NewStore,
                              !.ids = EmptyMap,
                              !.atReset = [ok |-> TRUE, stream |-> f.d.stream,
                                           ids |-> d.ids, seen |-> d.seen,
                                           nout |-> d.nout]],
            err |-> "nil"] :
      f \in namespaceLoop([d EXCEPT !.namespaces = <<>>, !.xml = NewXML,
                                    !.stream = @ + 1, !.root = NoRoot]) }

\* Reset leaving the buffer as it is
resetKeepsBuffer(d) ==
    { IF f.err # "nil" THEN f
      ELSE [d |-> [f.d EXCEPT !.strings = NewStore,
                              !.atReset = [ok |-> TRUE, stream |-> f.d.stream,
                                           ids |-> d.ids, seen |-> d.seen,
                                           nout |-> d.nout]],
            err |-> "nil"] :
      f \in namespaceLoop([d EXCEPT !.namespaces = <<>>, !.xml = NewXML,
                                    !.stream = @ + 1, !.root = NoRoot]) }

\* Decoder.Reset
reset(d) ==
    { IF f.err # "nil" THEN f
      ELSE [d |-> [f.d EXCEPT !.discarded =
                                  @ \cup {[origin |-> f.d.from[i], stmt |-> f.d.buf[i]] :
                                           i \in (f.d.curr + 1)..Len(f.d.buf)},
                              !.curr = 0, !.buf = <<>>, !.from = <<>>,
                              !.strings = NewStore,
                              !.atReset = [ok |-> TRUE, stream |-> f.d.stream,
                                           ids |-> d.ids, seen |-> d.seen,
                                           nout |-> d.nout]],
            err |-> "nil"] :
      f \in namespaceLoop([d EXCEPT !.namespaces = <<>>, !.xml = NewXML,
                                    !.stream = @ + 1, !.root = NoRoot]) }

\* taking the statement appended last
takeLast(d) ==
    [s |-> d.buf[Len(d.buf)],
     o |-> d.from[Len(d.from)],
     d |-> [d EXCEPT !.buf = SubSeq(@, 1, Len(@) - 1),
                     !.from = SubSeq(@, 1, Len(@) - 1)]]

\* taking a statement and emptying the buffer whatever is left in it
takeAndClear(d) ==
    [s |-> d.buf[d.curr + 1],
     o |-> d.from[d.curr + 1],
     d |-> [d EXCEPT !.buf = <<>>, !.from = <<>>, !.curr = 0]]

\* Decoder.Unmarshal, taking the next statement from the buffer:
\* s := dec.buf[dec.curr]; ...; if len(dec.buf[dec.curr:]) == 0 { ... }
take(d) ==
    LET last == Len(d.buf) - (d.curr + 1) = 0
    IN  [s |-> d.buf[d.curr + 1],
         o |-> d.from[d.curr + 1],
         d |-> [d EXCEPT !.buf  = IF last THEN <<>>
                                  ELSE [@ EXCEPT ![d.curr + 1] = NilStmt],
                         !.from = IF last THEN <<>> ELSE @,
                         !.curr = IF last THEN 0 ELSE @ + 1]]

\* Decoder.Unmarshal: the set of [d, err, stmt, origin]
RECURSIVE unmarshal(_)
unmarshal(d) ==
    IF Len(d.buf) - d.curr = 0
    THEN UNION { UNION { IF f.err # "nil"
                         THEN {[d |-> f.d, err |-> f.err, stmt |-> NilStmt,
                                origin |-> NoRoot]}
                         ELSE unmarshal(f.d) :
                         f \in fillBuffer(d, tok) } : tok \in NextToks(d) }
    ELSE LET s     == take(d).s
             o     == take(d).o
             d1    == take(d).d
             i1    == intern(d1.strings, s.Subject.Value)
             i2    == intern(i1.store, s.Predicate.Value)
             i3    == intern(i2.store, s.Object.Value)
             m1    == idFor(d1.ids, s.Subject.Value)
             m2    == idFor(m1, s.Object.Value)
             m3    == idFor(m2, s.Predicate.Value)
             t     == [Subject   |-> [s.Subject EXCEPT !.UID = m3[s.Subject.Value]],
                       Predicate |-> [s.Predicate EXCEPT !.UID = m3[s.Predicate.Value]],
                       Object    |-> [s.Object EXCEPT !.UID = m3[s.Object.Value]]]
             triple == <<t.Subject.UID, t.Predicate.UID, t.Object.UID>>
             d2    == [d1 EXCEPT !.strings = i3.store, !.ids = m3]
         IN  IF i1.panic \/ i2.panic \/ i3.panic
             THEN {[d |-> d1, err |-> "panic", stmt |-> NilStmt, origin |-> o]}
             ELSE IF triple \notin d2.seen
             THEN {[d |-> [d2 EXCEPT !.seen = @ \cup {triple}], err |-> "nil",
                    stmt |-> t, origin |-> o]}
             ELSE unmarshal([d2 EXCEPT !.dropped = @ \cup {[origin |-> o, stmt |-> t]}])

\* compactIRI ranging over the table from its end
RECURSIVE compactIRILast(_, _)
compactIRILast(ns, iri) ==
    IF ns = <<>> THEN [new |-> iri, changed |-> FALSE]
    ELSE LET e == ns[Len(ns)] IN
         IF HasPrefix(iri, e.Value)
         THEN IF Len(TrimPrefix(iri, e.Value)) = 0
              THEN [new |-> iri, changed |-> FALSE]
              ELSE [new |-> e.Name.Local \o ":" \o TrimPrefix(iri, e.Value),
                    changed |-> TRUE]
         ELSE compactIRILast(SubSeq(ns, 1, Len(ns) - 1), iri)

\* Decoder.compactIRI over the namespaces from position i: [new, changed]
RECURSIVE compactIRI(_, _)
compactIRI(ns, iri) ==
    IF ns = <<>> THEN [new |-> iri, changed |-> FALSE]
    ELSE IF HasPrefix(iri, Head(ns).Value)
    THEN IF Len(TrimPrefix(iri, Head(ns).Value)) = 0
         THEN [new |-> iri, changed |-> FALSE]
         ELSE [new |-> Head(ns).Name.Local \o ":" \o TrimPrefix(iri, Head(ns).Value),
               changed |-> TRUE]
    ELSE compactIRI(Tail(ns), iri)

\* compactTerm without term.UID = uid on a rewritten literal
compactTermFreshLiteral(ns, term) ==
    LET p == Parts(term.Value) IN
    IF ~p.ok THEN [term |-> term, err |-> TRUE]
    ELSE IF p.kind = "IRI"
    THEN LET c == compactIRI(ns, p.text)
             n == NewIRITerm(c.new)
         IN  IF ~c.changed THEN [term |-> term, err |-> FALSE]
             ELSE IF ~n.ok THEN [term |-> Term(""), err |-> TRUE]
             ELSE [term |-> [Value |-> n.Value, UID |-> term.UID], err |-> FALSE]
    ELSE IF p.kind = "Literal" /\ p.qual # ""
    THEN LET c == compactIRI(ns, p.qual)
             n == NewLiteralTerm(p.text, c.new)
         IN  IF ~c.changed THEN [term |-> term, err |-> FALSE]
             ELSE IF ~n.ok THEN [term |-> Term(""), err |-> TRUE]
             ELSE [term |-> Term(n.Value), err |-> FALSE]
    ELSE [term |-> term, err |-> FALSE]

\* Decoder.compactTerm: [term, err], err TRUE when an error is returned
compactTerm(ns, term) ==
    LET p == Parts(term.Value) IN
    IF ~p.ok THEN [term |-> term, err |-> TRUE]
    ELSE IF p.kind = "IRI"
    THEN LET c == compactIRI(ns, p.text)
             n == NewIRITerm(c.new)
         IN  IF ~c.changed THEN [term |-> term, err |-> FALSE]
             ELSE IF ~n.ok THEN [term |-> Term(""), err |-> TRUE]
             ELSE [term |-> [Value |-> n.Value, UID |-> term.UID], err |-> FALSE]
    ELSE IF p.kind = "Literal" /\ p.qual # ""
    THEN LET c == compactIRI(ns, p.qual)
             n == NewLiteralTerm(p.text, c.new)
         IN  IF ~c.changed THEN [term |-> term, err |-> FALSE]
             ELSE IF ~n.ok THEN [term |-> Term(""), err |-> TRUE]
             ELSE [term |-> [Value |-> n.Value, UID |-> term.UID], err |-> FALSE]
    ELSE [term |-> term, err |-> FALSE]

\* Decoder.UnmarshalLocal after Unmarshal returned s: [stmt, err]
localise(ns, s) ==
    LET subj == compactTerm(ns, s.Subject)
        s1   == [s EXCEPT !.Subject = subj.term]
        pred == compactTerm(ns, s.Predicate)
        s2   == [s1 EXCEPT !.Predicate = pred.term]
        obj  == compactTerm(ns, s.Object)
        s3   == [s2 EXCEPT !.Object = obj.term]
    IN  IF subj.err THEN [stmt |-> s, err |-> "error"]
        ELSE IF pred.err THEN [stmt |-> s1, err |-> "error"]
        ELSE IF obj.err THEN [stmt |-> s2, err |-> "error"]
        ELSE [stmt |-> s3, err |-> "nil"]

-----------------------------------------------------------------------------
(* The state machine: the calls a client makes on one Decoder.  A panic    *)
(* that leaves a call ends the program: nothing in the repository recovers *)
(* from it.                                                                *)

\* the Decoder and its history as one record
Dec ==
    [xml |-> xml, namespaces |-> namespaces, strings |-> strings, ids |-> ids,
     curr |-> curr, buf |-> buf, seen |-> seen, from |-> from, root |-> root,
     stream |-> stream, lastTok |-> lastTok, produced |-> produced,
     dropped |-> dropped, discarded |-> discarded, failed |-> failed,
     unknown |-> unknown, atReset |-> atReset, reads |-> reads, nout |-> Len(out)]

\* the session as a call finds it: the call has read no token yet
Called == [Dec EXCEPT !.lastTok = NoToken]

Install(d) ==
    /\ xml' = d.xml
    /\ namespaces' = d.namespaces
    /\ strings' = d.strings
    /\ ids' = d.ids
    /\ curr' = d.curr
    /\ buf' = d.buf
    /\ seen' = d.seen
    /\ from' = d.from
    /\ root' = d.root
    /\ stream' = d.stream
    /\ lastTok' = d.lastTok
    /\ produced' = d.produced
    /\ dropped' = d.dropped
    /\ discarded' = d.discarded
    /\ failed' = d.failed
    /\ unknown' = d.unknown
    /\ atReset' = d.atReset
    /\ reads' = d.reads
    /\ pure' = pure
    /\ doc' = doc

Result(op, err, stmt) == [op |-> op, err |-> err, stmt |-> stmt]

\* no call of the mapper or the compactor on its own
NoCall == [fn |-> "none"]

\* the program before NewDecoder is called
NoSession ==
    /\ xml = NewXML
    /\ namespaces = <<>>
    /\ strings = NewStore
    /\ ids = EmptyMap
    /\ curr = 0
    /\ buf = <<>>
    /\ seen = {}
    /\ phase = "init"
    /\ res = Result("none", "nil", NilStmt)
    /\ out = <<>>
    /\ from = <<>>
    /\ root = NoRoot
    /\ stream = 0
    /\ lastTok = NoToken
    /\ produced = {}
    /\ dropped = {}
    /\ discarded = {}
    /\ failed = {}
    /\ unknown = {}
    /\ atReset = [ok |-> FALSE, stream |-> 0, ids |-> EmptyMap, seen |-> {}, nout |-> 0]
    /\ reads = 0

Init == NoSession /\ pure = NoCall /\ doc = "plain"

\* dec, err := NewDecoder(r)
NewDecoder ==
    /\ phase = "init"
    /\ \E f \in newDecoder([Called EXCEPT !.stream = 1]) :
          /\ Install(f.d)
          /\ phase' = IF f.err = "nil" THEN "live"
                      ELSE IF f.err = "panic" THEN "crashed" ELSE "failed"
          /\ res' = Result("NewDecoder", f.err, NilStmt)
    /\ out' = out

\* err := dec.Reset(r)
Reset ==
    /\ phase = "live"
    /\ stream <= MaxResets
    /\ \E f \in reset(Called) :
          /\ Install(f.d)
          /\ phase' = IF f.err = "panic" THEN "crashed" ELSE "live"
          /\ res' = Result("Reset", f.err, NilStmt)
    /\ out' = out

\* s, err := dec.Unmarshal()
Unmarshal ==
    /\ phase = "live"
    /\ \E r \in unmarshal(Called) :
          /\ Install(r.d)
          /\ phase' = IF r.err = "panic" THEN "crashed" ELSE "live"
          /\ res' = Result("Unmarshal", r.err, r.stmt)
          /\ out' = IF r.err = "nil"
                    THEN Append(out, [stmt |-> r.stmt, origin |-> r.origin])
                    ELSE out

\* s, err := dec.UnmarshalLocal()
UnmarshalLocal ==
    /\ phase = "live"
    /\ \E r \in unmarshal(Called) :
          LET l == localise(r.d.namespaces, r.stmt) IN
          /\ Install(r.d)
          /\ phase' = IF r.err = "panic" THEN "crashed" ELSE "live"
          /\ res' = IF r.err # "nil" THEN Result("UnmarshalLocal", r.err, NilStmt)
                    ELSE Result("UnmarshalLocal", l.err, l.stmt)
          /\ out' = IF r.err = "nil" /\ l.err = "nil"
                    THEN Append(out, [stmt |-> r.stmt, origin |-> r.origin])
                    ELSE out

Next == NewDecoder \/ Reset \/ Unmarshal \/ UnmarshalLocal

Spec == Init /\ [][Next]_vars

\* the sessions over documents of literals, blank nodes and qualified names
LocalInit == NoSession /\ pure = NoCall /\ doc = "local"

LocalSpec == LocalInit /\ [][Next]_vars

-----------------------------------------------------------------------------
(* The mapper and the compactor on their own.  A behaviour of PureSpec    *)
(* starts from one input and applies the function to it; the decoder is   *)
(* not used.                                                               *)

\* entries of dec.namespaces: the second value extends the first, and the
\* third is a prefix of the qualified names the first entry produces
NsObo == Attr("xmlns", "obo", "http://x/")

NsGo == Attr("xmlns", "go", "http://x/go#")

NsX == Attr("xmlns", "x", "obo:")

\* the tables the decoder can hold: every set of entries, sorted by byLength
Tables ==
    UNION { byLength(a, DOMAIN a) :
            a \in UNION { {<<>>, <<e>>} : e \in {NsObo, NsGo, NsX} }
                  \cup { <<NsObo, NsGo>>, <<NsObo, NsX>>, <<NsGo, NsX>>,
                         <<NsObo, NsGo, NsX>> } }

\* terms as Unmarshal returns them, with a UID
CompactTerms ==
    { [Value |-> v, UID |-> 7] :
      v \in { "<http://x/go#T>", "<http://x/C>", "<http://x/>", "<http://x/go#>",
              "<http://y/Z>", "<obo:C>", "_:b1", "\"Foo\"", "\"Foo\"@en",
              "\"Foo\"^^<http://x/string>", "\"Foo\"^^<xsd:string>" } }

CompactCalls ==
    { [fn |-> "compact", arg |-> [ns |-> ns, term |-> t], val |-> <<>>] :
      ns \in Tables, t \in CompactTerms }

\* dec.compactTerm(term), and then dec.compactTerm of what it returned
Compact ==
    /\ pure.fn = "compact"
    /\ Len(pure.val) < 2
    /\ pure.val # <<>> => ~pure.val[1].err
    /\ pure' = [pure EXCEPT !.val =
                   Append(@, compactTerm(pure.arg.ns,
                                         IF pure.val = <<>> THEN pure.arg.term
                                         ELSE pure.val[1].term))]
    /\ UNCHANGED <<xml, namespaces, strings, ids, curr, buf, seen, phase, res, out,
                   from, root, stream, lastTok, produced, dropped, discarded,
                   failed, unknown, atReset, reads, doc>>

\* the sequences over S of length lo..hi
SeqsOf(S, lo, hi) == UNION { [1..k -> S] : k \in lo..hi }

\* scalar children: with a resource, with a datatype, with both, with a
\* blank resource and a datatype, with neither
ScalarChildren ==
    { Data(RDFS, "seeAlso", "http://x/R", "", ""),
      LabelFoo,
      Data(RDFS, "comment", "http://x/R", "Foo", XSDString),
      Data(RDFS, "comment", " ", "Foo", XSDString),
      Data(RDFS, "label", "", "Foo", "") }

\* a decoded element of one of the four kinds with scalar children
Element(space, local, about, id, children, sub, eq, chain) ==
    [XMLName |-> [Space |-> space, Local |-> local], About |-> about, ID |-> id,
     scalars |-> <<children>>, SubClassOf |-> sub, EquivalentClass |-> eq,
     PropertyChainAxiom |-> chain]

ElementKinds == {"Ontology", "Class", "ObjectProperty", "AnnotationProperty"}

\* elements with up to MaxScalars scalar children and nothing else
ScalarElements ==
    { Element(OWL, k, "http://x/C", NoData, c, <<>>, <<>>, NilChain) :
      k \in ElementKinds, c \in SeqsOf(ScalarChildren, 0, MaxScalars) }
    \cup { Element(OWL, k, "http://x/C", Data("obo:", "id", "", "C:1", XSDString),
                   <<LabelFoo>>, <<>>, <<>>, NilChain) :
           k \in ElementKinds \ {"Ontology"} }

Restr(p, v) ==
    [XMLName |-> [Space |-> OWL, Local |-> "Restriction"],
     OnProperty |-> Data(OWL, "onProperty", p, "", ""),
     SomeValuesFrom |-> Data(OWL, "someValuesFrom", v, "", "")]

Restrictions == { Restr("http://x/p", "http://x/V"), Restr("http://x/q", "http://x/V") }

\* a Restriction whose onProperty carries its IRI as text, not as resource
TextRestrictions ==
    { [Restr("", "http://x/V") EXCEPT
          !.OnProperty = Data(OWL, "onProperty", "", "http://x/p", "")] }

\* subClassOf children: a resource only, a Restriction only, both
SubClassOfChildren ==
    { [XMLName |-> [Space |-> RDFS, Local |-> "subClassOf"], Resource |-> r,
       Restriction |-> l] :
      r \in {"http://x/S", "http://x/T"}, l \in {<<>>} }
    \cup { [XMLName |-> [Space |-> RDFS, Local |-> "subClassOf"], Resource |-> r,
            Restriction |-> <<x>>] :
           r \in {"", "http://x/S"}, x \in Restrictions }

SubClassElements ==
    { Element(OWL, "Class", "http://x/D", NoData, <<>>, l, <<>>, NilChain) :
      l \in SeqsOf(SubClassOfChildren, 1, MaxSubClassOf) }

Desc(about) == [XMLName |-> [Space |-> RDFNS, Local |-> "Description"], About |-> about]

\* an equivalentClass whose class is the intersection of the members
Intersection(ds, rs) ==
    <<[XMLName |-> [Space |-> OWL, Local |-> "equivalentClass"],
       Class |-> <<[XMLName |-> [Space |-> OWL, Local |-> "Class"],
                    IntersectionOf |->
                        <<[XMLName |-> [Space |-> OWL, Local |-> "intersectionOf"],
                           ParseType |-> "Collection",
                           Description |-> ds, Restriction |-> rs]>>]>>]>>

IntersectionElements ==
    { Element(OWL, "Class", "http://x/E", NoData, <<>>, <<>>, Intersection(ds, rs),
              NilChain) :
      ds \in SeqsOf({Desc("http://x/A"), Desc("http://x/B")}, 0, MaxMembers),
      rs \in SeqsOf(Restrictions, 0, MaxMembers) }

\* n intersectionOf children of one Description each, no two Descriptions
\* of the Class about the same IRI
RECURSIVE NestedIntersections(_, _, _)
NestedIntersections(e, c, n) ==
    IF n = 0 THEN <<>>
    ELSE Append(NestedIntersections(e, c, n - 1),
                [XMLName |-> [Space |-> OWL, Local |-> "intersectionOf"],
                 ParseType |-> "Collection",
                 Description |-> <<Desc("http://x/M" \o ToString(e) \o ToString(c)
                                            \o ToString(n))>>,
                 Restriction |-> <<>>])

\* n Class children of an equivalentClass, each with ni intersectionOf
RECURSIVE NestedClasses(_, _, _)
NestedClasses(e, n, ni) ==
    IF n = 0 THEN <<>>
    ELSE Append(NestedClasses(e, n - 1, ni),
                [XMLName |-> [Space |-> OWL, Local |-> "Class"],
                 IntersectionOf |-> NestedIntersections(e, n, ni)])

\* n equivalentClass children, each with nc Class children
RECURSIVE NestedEquivalents(_, _, _)
NestedEquivalents(n, nc, ni) ==
    IF n = 0 THEN <<>>
    ELSE Append(NestedEquivalents(n - 1, nc, ni),
                [XMLName |-> [Space |-> OWL, Local |-> "equivalentClass"],
                 Class |-> NestedClasses(n, nc, ni)])

\* a Class with ne equivalentClass children, each with nc Class children,
\* each with ni intersectionOf children
Nested(ne, nc, ni) ==
    Element(OWL, "Class", "http://x/N", NoData, <<>>, <<>>,
            NestedEquivalents(ne, nc, ni), NilChain)

\* the Classes with two intersections: in two equivalentClass children, in
\* two Class children of one equivalentClass, in one Class child
NestedElements == { Nested(2, 1, 1), Nested(1, 2, 1), Nested(1, 1, 2) }

ChainElements ==
    { Element(OWL, "ObjectProperty", "http://x/r", NoData, <<>>, <<>>, <<>>,
              [XMLName |-> [Space |-> OWL, Local |-> "propertyChainAxiom"],
               Description |-> ds]) :
      ds \in SeqsOf({Desc("http://x/p"), Desc("http://x/q")}, 1, MaxChain) }

\* link children of an Axiom: with a resource, with a datatype, with neither
LinkChildren ==
    { Data("obo:", "hasDbXref", "http://x/R", "", ""),
      Data("obo:", "hasDbXref", "", "X:1", XSDString),
      Data("obo:", "hasDbXref", "", "X:1", "") }

AxiomElements ==
    { [XMLName |-> [Space |-> OWL, Local |-> "Axiom"],
       Source |-> Data(OWL, "annotatedSource", "http://x/C", "", ""),
       Property |-> Data(OWL, "annotatedProperty", "http://x/p", "", ""),
       Target |-> t, Label |-> l, HasDbXref |-> x, Comment |-> c] :
      t \in { Data(OWL, "annotatedTarget", "http://x/T", "", ""),
              Data(OWL, "annotatedTarget", "", "Foo", XSDString),
              Data(OWL, "annotatedTarget", "http://x/T", "Foo", XSDString) },
      l \in { <<>>, <<LabelFoo>> },
      x \in SeqsOf(LinkChildren, 0, MaxLinks),
      c \in { <<>>, <<Data(RDFS, "comment", "", "Bar", XSDString)>> } }

\* what dec.buf can hold when collect is called
Priors == { <<>>, <<Statement("<http://x/Z>", rdfType, "<owl:Class>")>> }

CollectCalls ==
    { [fn |-> "collect", arg |-> [local |-> v.XMLName.Local, v |-> v, prior |-> b],
       val |-> <<>>] :
      v \in ScalarElements \cup SubClassElements \cup IntersectionElements
            \cup NestedElements \cup ChainElements \cup AxiomElements,
      b \in Priors }

\* the (about, in) a restriction is expanded under: by subClassOfs.collect,
\* and by equivalentClasses.collect on a list cell
Anchors ==
    { [about |-> "http://x/D", in |-> [Space |-> RDFS, Local |-> "subClassOf"]],
      [about |-> blankLabel(<<"cell">>), in |-> firstName] }

RestrictCalls ==
    { [fn |-> "restrict", arg |-> [r |-> r, about |-> a.about, in |-> a.in, prior |-> b],
       val |-> <<>>] :
      r \in Restrictions \cup TextRestrictions, a \in Anchors, b \in Priors }

Frame ==
    UNCHANGED <<xml, namespaces, strings, ids, curr, buf, seen, phase, res, out,
                from, root, stream, lastTok, produced, dropped, discarded,
                failed, unknown, atReset, reads, doc>>

\* dec.buf = v.collect(dec.buf) for a decoded element v
Collect ==
    /\ pure.fn = "collect"
    /\ pure.val = <<>>
    /\ pure' = [pure EXCEPT !.val =
                   <<collectOf(pure.arg.local,
                               [dst |-> pure.arg.prior, fail |-> "none"], pure.arg.v)>>]
    /\ Frame

\* dst = r.collect(dst, about, in) for a restriction r
Restrict ==
    /\ pure.fn = "restrict"
    /\ pure.val = <<>>
    /\ pure' = [pure EXCEPT !.val =
                   <<restrictionCollect([dst |-> pure.arg.prior, fail |-> "none"],
                                        pure.arg.r, pure.arg.about, pure.arg.in)>>]
    /\ Frame

PureCalls == CompactCalls \cup CollectCalls \cup RestrictCalls

PureInit == NoSession /\ pure \in PureCalls /\ doc = "plain"

PureNext == Compact \/ Collect \/ Restrict

PureSpec == PureInit /\ [][PureNext]_vars

-----------------------------------------------------------------------------
(* Properties of the session.  out is the sequence of the statements the  *)
(* calls returned, each with its origin: the stream, the token and the    *)
(* position among the statements of that token's element.                 *)

Triple(s) == <<s.Subject.UID, s.Predicate.UID, s.Object.UID>>

TermsOf(s) == {s.Subject, s.Predicate, s.Object}

Values(s) == <<s.Subject.Value, s.Predicate.Value, s.Object.Value>>

ReturnedOrigins == {out[i].origin : i \in DOMAIN out}

OriginsIn(set) == {x.origin : x \in set}

\* the statements returned since the last successful Reset was called
SinceReset == (atReset.nout + 1)..Len(out)

\* kind and content of two terms agree
SameTerm(t, u) ==
    LET p == Parts(t.Value)
        q == Parts(u.Value)
    IN  p.kind = q.kind /\ p.text = q.text /\ p.qual = q.qual

\* C1: over the life of a decoder, Reset included, no two returned
\* statements have the same (subject, predicate, object) UID triple: the
\* statement a call returns carries the triple recorded for it, every
\* returned triple is in seen, and a statement is suppressed only when its
\* triple was returned before.
C1_UniqueTriples ==
    /\ \A i, j \in DOMAIN out : i # j => Triple(out[i].stmt) # Triple(out[j].stmt)
    /\ \A i \in DOMAIN out : Triple(out[i].stmt) \in seen
    /\ (res.op \in {"Unmarshal", "UnmarshalLocal"} /\ res.err = "nil")
           => Triple(res.stmt) = Triple(out[Len(out)].stmt)
    /\ \A x \in dropped :
           /\ x.origin \notin ReturnedOrigins
           /\ \E i \in DOMAIN out : Triple(out[i].stmt) = Triple(x.stmt)

\* C1 happens: after a Reset a statement of the second stream is suppressed
\* because its triple was returned from the first stream
C1_Witness ==
    /\ atReset.ok
    /\ \E x \in dropped : \E i \in DOMAIN out :
           /\ x.origin.stream = 2
           /\ out[i].origin.stream = 1
           /\ Triple(out[i].stmt) = Triple(x.stmt)

\* C2: every returned term has a UID of at least 1; two returned terms have
\* the same UID exactly when they have the same kind and content, whatever
\* their roles and statements; a term first returned in a later statement
\* has a UID larger than every UID of the statements before; a statement
\* Unmarshal returns carries the UIDs of the ids table.
C2_UIDs ==
    LET terms == UNION {TermsOf(out[i].stmt) : i \in DOMAIN out} IN
    /\ \A t \in terms : t.UID >= 1
    /\ \A t, u \in terms : (t.UID = u.UID) <=> SameTerm(t, u)
    /\ \A j \in DOMAIN out : \A u \in TermsOf(out[j].stmt) :
           (\A i \in 1..(j - 1) : \A t \in TermsOf(out[i].stmt) : ~SameTerm(t, u))
               => \A i \in 1..(j - 1) : \A t \in TermsOf(out[i].stmt) : u.UID > t.UID
    /\ \A v, w \in DOMAIN ids : ids[v] >= 1 /\ (v # w => ids[v] # ids[w])
    /\ (res.op = "Unmarshal" /\ res.err = "nil")
           => \A t \in TermsOf(res.stmt) : t.Value \in DOMAIN ids /\ t.UID = ids[t.Value]

\* C2 happens: a value returned as a subject comes back as the object of a
\* later statement, which also has a term not returned before
C2_Witness ==
    \E i, j \in DOMAIN out :
        /\ i < j
        /\ out[i].stmt.Subject.Value = out[j].stmt.Object.Value
        /\ \E u \in TermsOf(out[j].stmt) :
               \A k \in 1..(j - 1) : \A t \in TermsOf(out[k].stmt) : t.Value # u.Value

\* C3: after a successful Reset every value that had a UID when Reset was
\* called keeps it, in the table and in the statements returned since, and
\* every value first seen since has a UID greater than all of those.
C3_ResetKeepsUIDs ==
    atReset.ok =>
        /\ \A v \in DOMAIN atReset.ids : v \in DOMAIN ids /\ ids[v] = atReset.ids[v]
        /\ \A v \in DOMAIN ids \ DOMAIN atReset.ids :
               \A w \in DOMAIN atReset.ids : ids[v] > atReset.ids[w]
        /\ \A j \in SinceReset : \A t \in TermsOf(out[j].stmt) :
               IF t.Value \in DOMAIN atReset.ids
               THEN t.UID = atReset.ids[t.Value]
               ELSE \A w \in DOMAIN atReset.ids : t.UID > atReset.ids[w]

\* C3 happens: a statement returned after a successful Reset has a term
\* seen before the Reset and a term never seen before
C3_Witness ==
    /\ atReset.ok
    /\ \E j \in SinceReset : \E t, u \in TermsOf(out[j].stmt) :
           /\ t.Value \in DOMAIN atReset.ids
           /\ u.Value \notin DOMAIN atReset.ids

\* C4: a successful Reset leaves the buffer empty, the ids table and the
\* seen set as they were when it was called; a statement it discarded is
\* never returned; every statement returned since was mapped from the
\* stream Reset was given, or a later one.
C4_ResetDiscardsPending ==
    /\ OriginsIn(discarded) \cap ReturnedOrigins = {}
    /\ atReset.ok => \A j \in SinceReset : out[j].origin.stream >= atReset.stream
    /\ (res.op = "Reset" /\ res.err = "nil")
           => /\ atReset.ok
              /\ buf = <<>> /\ curr = 0
              /\ ids = atReset.ids /\ seen = atReset.seen

\* C4 happens: a statement of the first stream is discarded by the Reset,
\* and the second stream's statement of the same three values is returned
C4_Witness ==
    /\ atReset.ok
    /\ \E x \in discarded : \E j \in SinceReset :
           /\ x.origin.stream < atReset.stream
           /\ out[j].origin.stream = atReset.stream
           /\ Values(out[j].stmt) = Values(x.stmt)

\* every statement stored in the buffer was returned, suppressed as a
\* duplicate, or discarded by a Reset
AllDelivered ==
    produced \subseteq ReturnedOrigins \cup OriginsIn(dropped) \cup OriginsIn(discarded)

\* C5: Unmarshal and UnmarshalLocal report io.EOF only when Token returned
\* io.EOF while the buffer was empty, and then every statement stored in
\* the buffer and not discarded by a Reset was returned or suppressed as a
\* duplicate.
C5_EOFOnlyWhenDrained ==
    (res.op \in {"Unmarshal", "UnmarshalLocal"} /\ res.err = "EOF")
        => /\ lastTok = EOFToken
           /\ xml.state = "eof"
           /\ Len(buf) - curr = 0
           /\ AllDelivered

\* C5 happens: Unmarshal reports io.EOF after statements were returned and
\* a duplicate was suppressed
C5_Witness ==
    /\ res.op = "Unmarshal" /\ res.err = "EOF"
    /\ Len(out) >= 2
    /\ dropped # {}

UnknownStart(tok) ==
    tok.type = "StartElement" /\ tok.Name.Local \notin Mapped \cup {"RDF"}

\* C6: once a start element whose local name is neither a mapped kind nor
\* RDF is read, the call that read it has ended in a panic that is not
\* turned into an error: it returned no statement, it stored none, the
\* element is the last token read, and no call follows.
C6_UnknownElementIsFatal ==
    unknown # {}
        => /\ phase = "crashed"
           /\ res.err = "panic"
           /\ res.stmt = NilStmt
           /\ UnknownStart(lastTok)
           /\ unknown = {[stream |-> stream, tok |-> xml.nread]}
           /\ \A o \in produced : ~(o.stream = stream /\ o.tok = xml.nread)

\* C6 happens: Unmarshal, after it returned statements, reads a
\* NamedIndividual element
C6_Witness ==
    /\ lastTok = UnknownToken
    /\ res.op = "Unmarshal"
    /\ out # <<>>

\* the mapping of the element fails on a term with invalid text
MapFails(tok) ==
    /\ tok.type = "StartElement"
    /\ tok.Name.Local \in Mapped
    /\ tok.decode = "ok"
    /\ collectOf(tok.Name.Local, [dst |-> <<>>, fail |-> "none"], tok.v).fail = "error"

\* C7: the call that reads an element whose mapping builds a term from
\* invalid text returns an error and no statement, and no statement of an
\* element whose mapping failed is in the buffer, was ever stored in it, or
\* was ever returned.
C7_MalformedTermStoresNothing ==
    /\ MapFails(lastTok) => res.err = "error" /\ res.stmt = NilStmt
    /\ \A o \in produced \cup ReturnedOrigins \cup {from[i] : i \in DOMAIN from} :
           [stream |-> o.stream, tok |-> o.tok] \notin failed

\* C7 happens: Unmarshal reads an element whose mapping had built a
\* statement before it met the invalid term, while statements were returned
\* before
C7_Witness ==
    /\ MapFails(lastTok)
    /\ Len(collectOf(lastTok.Name.Local, [dst |-> <<>>, fail |-> "none"], lastTok.v).dst) > 0
    /\ res.op = "Unmarshal"
    /\ [stream |-> stream, tok |-> xml.nread] \in failed
    /\ out # <<>>

\* C8, as the specification states it: NewDecoder, Reset, Unmarshal and
\* UnmarshalLocal report io.EOF only when the input is exhausted and every
\* mapped statement was delivered, and a call that met a failure reports
\* something other than io.EOF.
C8_EOFMeansAllDelivered ==
    /\ res.err = "EOF"
           => /\ xml.state = "eof"
              /\ Len(buf) - curr = 0
              /\ AllDelivered
    /\ (lastTok = ErrToken \/ UnknownStart(lastTok) \/ MapFails(lastTok)
            \/ (lastTok.type = "StartElement" /\ lastTok.decode = "err"))
           => res.err \in {"error", "panic"}

\* the attribute as the decoder keeps it
Kept(a) == IF a.Name.Space = XMLNamespace THEN [a EXCEPT !.Name.Space = "xml"] ELSE a

\* b is an arrangement of the elements of a
IsPermutation(a, b) ==
    /\ Len(a) = Len(b)
    /\ \E f \in [DOMAIN a -> DOMAIN b] :
           /\ \A i, j \in DOMAIN a : i # j => f[i] # f[j]
           /\ \A i \in DOMAIN a : b[f[i]] = a[i]

RDFStart(e) == e # NoRoot /\ e.Name.Local = "RDF" /\ e.Attr # <<>>

\* C9: when NewDecoder or Reset succeeds on a stream whose root is an RDF
\* element with attributes, Namespaces() holds exactly the attributes of
\* that root, the xml namespace renamed, and nothing of an earlier stream,
\* in an order of non-increasing value length.
C9_NamespacesOfTheRoot ==
    (res.op \in {"NewDecoder", "Reset"} /\ res.err = "nil")
        => /\ root # NoRoot
           /\ RDFStart(root)
                  => IsPermutation([i \in DOMAIN root.Attr |-> Kept(root.Attr[i])],
                                   namespaces)
           /\ \A i, j \in DOMAIN namespaces :
                  i < j => Len(namespaces[i].Value) >= Len(namespaces[j].Value)

\* C9 happens: Reset succeeds on a second stream whose root declares its
\* attributes in another order than the one kept
C9_Witness ==
    /\ res.op = "Reset" /\ res.err = "nil"
    /\ RDFStart(root)
    /\ stream = 2
    /\ Len(namespaces) = 2
    /\ namespaces[1] = Kept(root.Attr[2])
    /\ namespaces[1].Name.Space = "xml"

\* the IRI a compaction works on: the text of an IRI term
CompactedIRI == Parts(pure.arg.term.Value).text

\* the entries of the table whose value is a prefix of the IRI
Matching == {i \in DOMAIN pure.arg.ns : HasPrefix(CompactedIRI, pure.arg.ns[i].Value)}

\* C11: compacting an IRI term is decided by the first entry of the table
\* whose value is a prefix of the IRI: with a non-empty remainder the
\* result is prefix:remainder with the UID kept, with an empty remainder or
\* no such entry the term is unchanged; and no entry with a longer value is
\* a prefix of the IRI.
C11_FirstPrefixDecides ==
    (pure.fn = "compact" /\ pure.val # <<>>
         /\ Parts(pure.arg.term.Value).kind = "IRI")
        => LET ns == pure.arg.ns
               r  == pure.val[1]
           IN  /\ ~r.err
               /\ IF Matching = {} THEN r.term = pure.arg.term
                  ELSE LET k   == CHOOSE i \in Matching : \A j \in Matching : i <= j
                           rem == SubSeq(CompactedIRI, Len(ns[k].Value) + 1,
                                         Len(CompactedIRI))
                       IN  /\ IF rem = "" THEN r.term = pure.arg.term
                              ELSE r.term = [Value |-> "<" \o ns[k].Name.Local \o ":"
                                                       \o rem \o ">",
                                             UID |-> pure.arg.term.UID]
                           /\ \A j \in Matching :
                                  Len(ns[j].Value) <= Len(ns[k].Value)

\* C11 happens: two entries are prefixes of the IRI and the term is
\* rewritten with the name of the longer one
C11_Witness ==
    /\ pure.fn = "compact" /\ pure.val # <<>>
    /\ Parts(pure.arg.term.Value).kind = "IRI"
    /\ Cardinality(Matching) >= 2
    /\ pure.val[1].term.Value = "<go:T>"

\* C12, as the specification states it: for every term and every table,
\* compacting a compacted term returns it unchanged.
C12_CompactionIdempotent ==
    (pure.fn = "compact" /\ Len(pure.val) = 2)
        => /\ ~pure.val[2].err
           /\ pure.val[2].term = pure.val[1].term

\* the call of the mapper is made
MapperCalled == pure.fn \in {"collect", "restrict"} /\ pure.val # <<>>

\* what the same call returns for a decoder whose buffer is empty
OnEmptyBuffer ==
    IF pure.fn = "collect"
    THEN collectOf(pure.arg.local, [dst |-> <<>>, fail |-> "none"], pure.arg.v)
    ELSE restrictionCollect([dst |-> <<>>, fail |-> "none"], pure.arg.r,
                            pure.arg.about, pure.arg.in)

\* the statements the call appended to the buffer it was given
Appended ==
    SubSeq(pure.val[1].dst, Len(pure.arg.prior) + 1, Len(pure.val[1].dst))

IsBlank(value) == Parts(value).kind = "Blank"

\* C13: the statements an element is mapped to, blank node labels
\* included, are the same whatever the buffer holds when it is mapped: the
\* buffer is kept as it was, and what is appended is what a decoder with an
\* empty buffer appends.
C13_LabelsFromContentOnly ==
    MapperCalled
        => /\ pure.val[1].fail = OnEmptyBuffer.fail
           /\ pure.val[1].fail = "none"
                  => /\ SubSeq(pure.val[1].dst, 1, Len(pure.arg.prior)) = pure.arg.prior
                     /\ Appended = OnEmptyBuffer.dst

\* C13 happens: an element with blank nodes is mapped into a buffer that
\* holds a statement
C13_Witness ==
    /\ MapperCalled
    /\ pure.arg.prior # <<>>
    /\ pure.val[1].fail = "none"
    /\ \E i \in DOMAIN Appended :
           IsBlank(Appended[i].Subject.Value) /\ IsBlank(Appended[i].Object.Value)

\* the intersectionOf of the element mapped, when it has one
TheIntersection == pure.arg.v.EquivalentClass[1].Class[1].IntersectionOf[1]

IntersectionMapped ==
    /\ pure.fn = "collect" /\ pure.val # <<>>
    /\ pure.arg.local = "Class"
    /\ pure.arg.v \in IntersectionElements

\* positions of the appended statements with the predicate
WithPredicate(p) == {i \in DOMAIN Appended : Appended[i].Predicate.Value = p}

\* the list cells: the subjects of the rdf:first and rdf:rest statements
Cells == {Appended[i].Subject.Value : i \in WithPredicate(rdfFirst) \cup WithPredicate(rdfRest)}

\* C14, as the specification states it: an intersectionOf of n members is
\* mapped to exactly n rdf:first and n rdf:rest statements, every cell has
\* exactly one of each, every Description is the rdf:first of a cell, every
\* rdf:rest targets a cell or rdf:nil, and with n >= 1 the head is a cell
\* and one rdf:rest targets rdf:nil.
C14_IntersectionIsAList ==
    IntersectionMapped
        => LET n      == Len(TheIntersection.Description) + Len(TheIntersection.Restriction)
               firsts == WithPredicate(rdfFirst)
               rests  == WithPredicate(rdfRest)
               heads  == {Appended[i].Object.Value :
                              i \in WithPredicate("<" \o OWL \o "intersectionOf>")}
           IN  /\ pure.val[1].fail = "none"
               /\ Cardinality(firsts) = n
               /\ Cardinality(rests) = n
               /\ \A c \in Cells :
                      /\ Cardinality({i \in firsts : Appended[i].Subject.Value = c}) = 1
                      /\ Cardinality({i \in rests : Appended[i].Subject.Value = c}) = 1
               /\ \A k \in DOMAIN TheIntersection.Description :
                      \E i \in firsts :
                          Appended[i].Object.Value
                              = "<" \o TheIntersection.Description[k].About \o ">"
               /\ \A i \in rests : Appended[i].Object.Value \in Cells \cup {rdfNil}
               /\ n >= 1 => /\ heads \subseteq Cells
                            /\ Cardinality({i \in rests : Appended[i].Object.Value = rdfNil}) = 1

\* the propertyChainAxiom of the element mapped, when it has one
ChainMapped ==
    /\ pure.fn = "collect" /\ pure.val # <<>>
    /\ pure.arg.local = "ObjectProperty"
    /\ pure.arg.v.PropertyChainAxiom # NilChain

TheChain == pure.arg.v.PropertyChainAxiom.Description

\* C15: an ObjectProperty with a propertyChainAxiom of n >= 1 Descriptions
\* is mapped to (about, owl:propertyChainAxiom, head) with head a blank
\* node, followed by n pairs (cell, rdf:first, member), (cell, rdf:rest,
\* next): the first cell is head, the members come in document order, the
\* cells are distinct blank nodes, each rdf:rest targets the cell of the
\* next pair and the last one rdf:nil.
C15_ChainIsAList ==
    (ChainMapped /\ Len(TheChain) >= 1)
        => LET n     == Len(TheChain)
               links == WithPredicate("<" \o OWL \o "propertyChainAxiom>")
           IN  /\ pure.val[1].fail = "none"
               /\ Cardinality(links) = 1
               /\ \A k \in links :
                      LET first(i) == Appended[k + 2 * i - 1]
                          rest(i)  == Appended[k + 2 * i]
                      IN  /\ Len(Appended) = k + 2 * n
                          /\ Cardinality(WithPredicate(rdfFirst)) = n
                          /\ Cardinality(WithPredicate(rdfRest)) = n
                          /\ Appended[k].Subject.Value = "<" \o pure.arg.v.About \o ">"
                          /\ IsBlank(Appended[k].Object.Value)
                          /\ first(1).Subject = Appended[k].Object
                          /\ \A i \in 1..n :
                                 /\ first(i).Predicate.Value = rdfFirst
                                 /\ first(i).Object.Value = "<" \o TheChain[i].About \o ">"
                                 /\ IsBlank(first(i).Subject.Value)
                                 /\ rest(i).Predicate.Value = rdfRest
                                 /\ rest(i).Subject = first(i).Subject
                                 /\ rest(i).Object.Value
                                        = IF i < n THEN first(i + 1).Subject.Value ELSE rdfNil
                          /\ \A i, j \in 1..n :
                                 first(i).Subject = first(j).Subject => i = j

\* C15 happens: a chain of three members, one of them twice, is mapped
C15_Witness ==
    /\ ChainMapped
    /\ Len(TheChain) = 3
    /\ TheChain[1] = TheChain[3]
    /\ TheChain[1] # TheChain[2]
    /\ Cardinality(WithPredicate(rdfRest)) = 3

\* a Class about http://x/C whose only child is a label with the text Foo
\* and no resource is mapped
LabelledClassMapped ==
    /\ pure.fn = "collect" /\ pure.val # <<>>
    /\ pure.arg.local = "Class"
    /\ pure.arg.v.About = "http://x/C"
    /\ pure.arg.v.ID = NoData
    /\ pure.arg.v.SubClassOf = <<>> /\ pure.arg.v.EquivalentClass = <<>>
    /\ Len(pure.arg.v.scalars[1]) = 1
    /\ pure.arg.v.scalars[1][1].XMLName = [Space |-> RDFS, Local |-> "label"]
    /\ pure.arg.v.scalars[1][1].Text = "Foo"
    /\ pure.arg.v.scalars[1][1].Resource = ""

TheLabel == pure.arg.v.scalars[1][1]

ClassTypeStatement == Statement("<http://x/C>", rdfType, "<" \o OWL \o "Class>")

\* C16, as the specification states it: the Class with the label child is
\* mapped to exactly two statements, (C, rdf:type, owl:Class) and
\* (C, label, a literal with the text Foo).
C16_LabelAlwaysStated ==
    LabelledClassMapped
        => /\ pure.val[1].fail = "none"
           /\ Len(Appended) = 2
           /\ Appended[1] = ClassTypeStatement
           /\ Appended[2].Subject.Value = "<http://x/C>"
           /\ Appended[2].Predicate.Value = "<" \o RDFS \o "label>"
           /\ Parts(Appended[2].Object.Value).kind = "Literal"
           /\ Parts(Appended[2].Object.Value).text = "Foo"

\* C16, amended: the Class is mapped to (C, rdf:type, owl:Class) followed,
\* when the label carries a datatype D, by (C, label, Literal(Foo, D)) and
\* nothing else; a label without a datatype adds no statement.
C16_LabelStatedWithDatatype ==
    LabelledClassMapped
        => /\ pure.val[1].fail = "none"
           /\ Appended[1] = ClassTypeStatement
           /\ IF TheLabel.Datatype = ""
              THEN Len(Appended) = 1
              ELSE /\ Len(Appended) = 2
                   /\ Appended[2] = Statement("<http://x/C>", "<" \o RDFS \o "label>",
                                              "\"Foo\"^^<" \o TheLabel.Datatype \o ">")

\* C16 happens: the label carries a datatype and two statements are made
C16_Witness ==
    /\ LabelledClassMapped
    /\ TheLabel.Datatype = XSDString
    /\ Len(Appended) = 2

\* an element with scalar children only is mapped
ScalarsMapped ==
    /\ pure.fn = "collect" /\ pure.val # <<>>
    /\ pure.arg.local \in ElementKinds
    /\ pure.arg.v.SubClassOf = <<>> /\ pure.arg.v.EquivalentClass = <<>>
    /\ pure.arg.v.PropertyChainAxiom = NilChain

NonBlank(str) == \E i \in 1..Len(str) : SubSeq(str, i, i) # " "

\* the statements the scalar-claim rule gives the child c of the element
\* about
ScalarRule(about, c) ==
    IF NonBlank(c.Resource)
    THEN <<Statement("<" \o about \o ">", "<" \o c.XMLName.Space \o c.XMLName.Local \o ">",
                     "<" \o c.Resource \o ">")>>
    ELSE IF NonBlank(c.Datatype)
    THEN <<Statement("<" \o about \o ">", "<" \o c.XMLName.Space \o c.XMLName.Local \o ">",
                     "\"" \o c.Text \o "\"^^<" \o c.Datatype \o ">")>>
    ELSE <<>>

RECURSIVE ScalarRuleAll(_, _)
ScalarRuleAll(about, cs) ==
    IF cs = <<>> THEN <<>>
    ELSE ScalarRule(about, Head(cs)) \o ScalarRuleAll(about, Tail(cs))

\* C17: an Ontology, Class, ObjectProperty or AnnotationProperty with
\* scalar children is mapped to its type statement, preceded by the
\* statement of its id child when it has one, and followed for each scalar
\* child in turn by one statement (about, child name, IRI(resource)) when
\* the resource is not blank, else by one statement (about, child name,
\* Literal(text, datatype)) when the datatype is not blank, else by none.
C17_ScalarClaimRule ==
    ScalarsMapped
        => LET v == pure.arg.v
           IN  /\ pure.val[1].fail = "none"
               /\ Appended = ScalarRule(v.About, v.ID)
                             \o <<Statement("<" \o v.About \o ">", rdfType,
                                            "<" \o OWL \o pure.arg.local \o ">")>>
                             \o ScalarRuleAll(v.About, v.scalars[1])

\* C17 happens: an element with a child bearing both attributes and a
\* child bearing neither is mapped
C17_Witness ==
    /\ ScalarsMapped
    /\ Len(pure.arg.v.scalars[1]) = 2
    /\ \E i \in 1..2 : LET c == pure.arg.v.scalars[1][i]
                       IN  c.Resource = "http://x/R" /\ c.Datatype = XSDString
    /\ \E i \in 1..2 : LET c == pure.arg.v.scalars[1][i]
                       IN  c.Resource = "" /\ c.Datatype = ""
    /\ Len(Appended) = 2

\* a Class with subClassOf children is mapped
SubClassOfMapped ==
    /\ pure.fn = "collect" /\ pure.val # <<>>
    /\ pure.arg.local = "Class"
    /\ pure.arg.v.SubClassOf # <<>>

TheSubClassOfs == pure.arg.v.SubClassOf

\* the number of statements of a subClassOf child: one for its resource,
\* four for its Restriction
SizeOf(c) == (IF c.Resource = "" THEN 0 ELSE 1) + 4 * Len(c.Restriction)

\* the number of statements before those of the k-th subClassOf child: the
\* type statement and the statements of the children before it
RECURSIVE Before(_)
Before(k) == IF k = 1 THEN 1 ELSE Before(k - 1) + SizeOf(TheSubClassOfs[k - 1])

BlanksOf(stmts) ==
    {t \in UNION {{stmts[i].Subject.Value, stmts[i].Object.Value} : i \in DOMAIN stmts} :
         IsBlank(t)}

\* C18: a subClassOf child with a resource and no Restriction is mapped to
\* exactly one statement, (about, rdfs:subClassOf, IRI(resource)), whose
\* terms are not blank nodes; the statements of an element whose
\* subClassOf children are all of this kind hold no blank node at all.
C18_ResourceOnlySubClassOf ==
    SubClassOfMapped
        => LET n == Len(TheSubClassOfs)
           IN  /\ pure.val[1].fail = "none"
               /\ Len(Appended) = Before(n) + SizeOf(TheSubClassOfs[n])
               /\ \A k \in 1..n :
                      LET c == TheSubClassOfs[k]
                      IN  (c.Resource # "" /\ c.Restriction = <<>>)
                              => /\ SizeOf(c) = 1
                                 /\ Appended[Before(k) + 1]
                                        = Statement("<" \o pure.arg.v.About \o ">",
                                                    "<" \o RDFS \o "subClassOf>",
                                                    "<" \o c.Resource \o ">")
               /\ (\A k \in 1..n : TheSubClassOfs[k].Restriction = <<>>)
                      => BlanksOf(Appended) = {}
               /\ Cardinality(BlanksOf(Appended))
                      <= Cardinality({k \in 1..n : TheSubClassOfs[k].Restriction # <<>>})

\* C18 happens: a Class with two subClassOf children bearing a resource
\* only is mapped
C18_Witness ==
    /\ SubClassOfMapped
    /\ Len(TheSubClassOfs) = 2
    /\ \A k \in 1..2 : TheSubClassOfs[k].Resource # "" /\ TheSubClassOfs[k].Restriction = <<>>
    /\ TheSubClassOfs[1] # TheSubClassOfs[2]
    /\ Len(Appended) = 3

\* a restriction is expanded
RestrictionExpanded ==
    pure.fn = "restrict" /\ pure.val # <<>> /\ pure.arg.r \in Restrictions

\* the term of the anchor: an IRI, or the blank node of a list cell
AnchorValue(about) ==
    IF about = "http://x/D" THEN "<" \o about \o ">" ELSE "_:" \o about

\* C19: a Restriction with onProperty P and someValuesFrom V expanded under
\* the anchor about with the parent predicate T is mapped to exactly four
\* statements: (about, T, B), (B, rdf:type, owl:Restriction),
\* (B, owl:onProperty, P) and (B, owl:someValuesFrom, V), B one blank node.
C19_RestrictionIsFourStatements ==
    RestrictionExpanded
        => LET b == Appended[1].Object.Value
               r == pure.arg.r
           IN  /\ pure.val[1].fail = "none"
               /\ Len(Appended) = 4
               /\ IsBlank(b)
               /\ b # AnchorValue(pure.arg.about)
               /\ Appended = <<Statement(AnchorValue(pure.arg.about),
                                         "<" \o pure.arg.in.Space \o pure.arg.in.Local \o ">",
                                         b),
                               Statement(b, rdfType, "<" \o OWL \o "Restriction>"),
                               Statement(b, "<" \o OWL \o "onProperty>",
                                         "<" \o r.OnProperty.Resource \o ">"),
                               Statement(b, "<" \o OWL \o "someValuesFrom>",
                                         "<" \o r.SomeValuesFrom.Resource \o ">")>>

\* C19 happens: a restriction is expanded under a list cell into a buffer
\* that holds a statement
C19_Witness ==
    /\ RestrictionExpanded
    /\ pure.arg.in = firstName
    /\ pure.arg.prior # <<>>
    /\ Len(Appended) = 4

\* an Axiom is mapped
AxiomMapped == pure.fn = "collect" /\ pure.val # <<>> /\ pure.arg.local = "Axiom"

\* the label, hasDbXref and comment children of the Axiom mapped
TheLinks == pure.arg.v.Label \o pure.arg.v.HasDbXref \o pure.arg.v.Comment

\* the child carries a resource or a datatype
Claims(c) == NonBlank(c.Resource) \/ NonBlank(c.Datatype)

\* the object the scalar-claim rule gives a child that carries a resource
\* or a datatype
ObjectOf(c) ==
    IF NonBlank(c.Resource) THEN "<" \o c.Resource \o ">"
    ELSE "\"" \o c.Text \o "\"^^<" \o c.Datatype \o ">"

NameOf(c) == "<" \o c.XMLName.Space \o c.XMLName.Local \o ">"

\* the four statements of the Axiom with the blank node a
AxiomHead(a) ==
    <<Statement(a, rdfType, "<" \o OWL \o "Axiom>"),
      Statement(a, "<" \o OWL \o "annotatedSource>",
                "<" \o pure.arg.v.Source.Resource \o ">"),
      Statement(a, "<" \o OWL \o "annotatedProperty>",
                "<" \o pure.arg.v.Property.Resource \o ">"),
      Statement(a, "<" \o OWL \o "annotatedTarget>", ObjectOf(pure.arg.v.Target))>>

\* C20, as the specification states it: an Axiom whose source and property
\* carry resources and whose target carries a resource or a datatype is
\* mapped to the four statements of its blank node A, in order, and then
\* to one statement with the subject A for each label, hasDbXref and
\* comment child.
C20_AxiomStatesEveryChild ==
    AxiomMapped
        => /\ pure.val[1].fail = "none"
           /\ Len(Appended) = 4 + Len(TheLinks)
           /\ IsBlank(Appended[1].Subject.Value)
           /\ SubSeq(Appended, 1, 4) = AxiomHead(Appended[1].Subject.Value)
           /\ \A i \in 1..Len(TheLinks) :
                  /\ Appended[4 + i].Subject = Appended[1].Subject
                  /\ Appended[4 + i].Predicate.Value = NameOf(TheLinks[i])

\* C20, amended: when each label, hasDbXref and comment child carries a
\* resource or a datatype, the Axiom is mapped to the four statements of
\* its blank node A, in order, and then to one statement (A, child name,
\* object by the scalar-claim rule) for each label child, each hasDbXref
\* child and each comment child in turn; when one of them carries neither,
\* the mapping fails with a panic that is no error value.
C20_AxiomStatesClaimingChildren ==
    AxiomMapped
        => IF \A i \in 1..Len(TheLinks) : Claims(TheLinks[i])
           THEN /\ pure.val[1].fail = "none"
                /\ IsBlank(Appended[1].Subject.Value)
                /\ Appended = AxiomHead(Appended[1].Subject.Value)
                              \o [i \in 1..Len(TheLinks) |->
                                     Statement(Appended[1].Subject.Value,
                                               NameOf(TheLinks[i]), ObjectOf(TheLinks[i]))]
           ELSE pure.val[1].fail = "string"

\* C20 happens: an Axiom with a literal target, a label, two hasDbXref and
\* a comment, each with a resource or a datatype, is mapped
C20_Witness ==
    /\ AxiomMapped
    /\ pure.arg.v.Target.Resource = ""
    /\ Len(pure.arg.v.Label) = 1 /\ Len(pure.arg.v.Comment) = 1
    /\ Len(pure.arg.v.HasDbXref) = 2
    /\ pure.arg.v.HasDbXref[1] # pure.arg.v.HasDbXref[2]
    /\ \A i \in 1..Len(TheLinks) : Claims(TheLinks[i])
    /\ Len(Appended) = 8

\* the statement of origin p was appended to the buffer before that of
\* origin o: an earlier stream, an earlier element, or an earlier place in
\* the statements of one element
Earlier(p, o) ==
    \/ p.stream < o.stream
    \/ p.stream = o.stream /\ p.tok < o.tok
    \/ p.stream = o.stream /\ p.tok = o.tok /\ p.k < o.k

\* C21: statements are returned in the order in which they were appended
\* to the buffer, elements in document order and the statements of one
\* element in the mapper's order, and none is passed over: a statement
\* appended before a returned one was returned before it, unless it was
\* suppressed as a duplicate or discarded by Reset.
C21_FIFO ==
    /\ \A i, j \in DOMAIN out : i < j => Earlier(out[i].origin, out[j].origin)
    /\ \A i \in DOMAIN out : \A p \in produced :
           Earlier(p, out[i].origin)
               => \/ \E j \in 1..(i - 1) : out[j].origin = p
                  \/ p \in OriginsIn(dropped) \cup OriginsIn(discarded)

\* C21 happens: two statements of one element and then one of the next
\* element are returned, a duplicate suppressed in between
C21_Witness ==
    /\ Len(out) >= 3
    /\ out[1].origin.tok = out[2].origin.tok
    /\ out[2].origin.tok < out[3].origin.tok
    /\ \E x \in dropped : Earlier(out[2].origin, x.origin) /\ Earlier(x.origin, out[3].origin)

\* the IRI with the value of the first entry of the table that is a prefix
\* of it replaced by the entry's name and a colon, when something is left
Qualified(ns, iri) ==
    LET m == {i \in DOMAIN ns : HasPrefix(iri, ns[i].Value)}
    IN  IF m = {} THEN iri
        ELSE LET k == CHOOSE i \in m : \A j \in m : i <= j
             IN  IF Len(iri) = Len(ns[k].Value) THEN iri
                 ELSE ns[k].Name.Local \o ":"
                      \o SubSeq(iri, Len(ns[k].Value) + 1, Len(iri))

\* the term as UnmarshalLocal is to return it
Localised(ns, t) ==
    LET p == Parts(t.Value)
    IN  IF p.kind = "IRI"
        THEN [Value |-> "<" \o Qualified(ns, p.text) \o ">", UID |-> t.UID]
        ELSE IF p.kind = "Literal" /\ p.qual # ""
        THEN [Value |-> "\"" \o p.text \o "\"^^<" \o Qualified(ns, p.qual) \o ">",
              UID |-> t.UID]
        ELSE t

\* C22: UnmarshalLocal fails only when Unmarshal fails, and otherwise
\* returns the statement Unmarshal made with each term of it compacted: an
\* IRI's text and a literal's datatype are qualified by the namespace
\* table, a literal's text and a blank node are unchanged, and each term
\* has the UID of its uncompacted value.
C22_LocalIsCompactedUnmarshal ==
    res.op = "UnmarshalLocal"
        => IF res.err # "nil" THEN res.stmt = NilStmt
           ELSE LET s == out[Len(out)].stmt
                IN  /\ res.stmt = [Subject   |-> Localised(namespaces, s.Subject),
                                   Predicate |-> Localised(namespaces, s.Predicate),
                                   Object    |-> Localised(namespaces, s.Object)]
                    /\ res.stmt.Subject.UID = ids[s.Subject.Value]
                    /\ res.stmt.Predicate.UID = ids[s.Predicate.Value]
                    /\ res.stmt.Object.UID = ids[s.Object.Value]

\* C22 happens: UnmarshalLocal returns a statement whose subject is
\* qualified and whose object is a literal with a qualified datatype
C22_Witness ==
    /\ res.op = "UnmarshalLocal" /\ res.err = "nil"
    /\ res.stmt.Subject.Value = "<obo:C>"
    /\ res.stmt.Object.Value = "\"Foo\"^^<obo:string>"
    /\ out[Len(out)].stmt.Object.Value = "\"Foo\"^^<http://x/string>"

\* C23, as the specification states it: once NewDecoder or Reset has
\* succeeded, and so the namespace table is set, no call of Unmarshal or
\* UnmarshalLocal changes what Namespaces() returns.
C23_NamespacesCapturedOnce ==
    [][((Unmarshal \/ UnmarshalLocal) /\ namespaces # <<>>)
           => namespaces' = namespaces]_vars

\* C24, as the specification states it: when Unmarshal has reported a
\* failure that is not the end of the input, the next call of Unmarshal or
\* UnmarshalLocal on the stream returns no statement.  The buffer is empty
\* when Unmarshal fails, so a statement returned by the next call would be
\* one of an element that follows the failing one.
C24_NoRecovery ==
    [][((Unmarshal \/ UnmarshalLocal)
            /\ res.op \in {"Unmarshal", "UnmarshalLocal"} /\ res.err = "error")
           => res'.err # "nil"]_vars

\* a Class with nested intersections is mapped
NestedMapped ==
    /\ pure.fn = "collect" /\ pure.val # <<>>
    /\ pure.arg.v \in NestedElements

\* the intersectionOf elements of the Class mapped: <<e, c, i>> for the
\* i-th intersectionOf of the c-th Class of the e-th equivalentClass
TheIntersections ==
    {<<e, c, i>> \in (1..2) \X (1..2) \X (1..2) :
         /\ e <= Len(pure.arg.v.EquivalentClass)
         /\ c <= Len(pure.arg.v.EquivalentClass[e].Class)
         /\ i <= Len(pure.arg.v.EquivalentClass[e].Class[c].IntersectionOf)}

\* C25, as the specification states it: every intersectionOf of the Class
\* has a head blank node of its own, linked by an intersectionOf statement
\* from the blank node of an equivalentClass, and no list cell holds
\* members of two intersections.
C25_IntersectionsApart ==
    NestedMapped
        => LET links == WithPredicate("<" \o OWL \o "intersectionOf>")
               ecs   == {Appended[i].Object.Value :
                             i \in WithPredicate("<" \o OWL \o "equivalentClass>")}
               firsts == WithPredicate(rdfFirst)
           IN  /\ pure.val[1].fail = "none"
               /\ Cardinality({Appended[i].Object.Value : i \in links})
                      = Cardinality(TheIntersections)
               /\ \A i \in links : /\ IsBlank(Appended[i].Object.Value)
                                   /\ Appended[i].Subject.Value \in ecs
               /\ \A i, j \in firsts :
                      Appended[i].Object # Appended[j].Object
                          => Appended[i].Subject # Appended[j].Subject

\* the term values of the statements Unmarshal has returned
ReturnedValues ==
    UNION {{t.Value : t \in TermsOf(out[i].stmt)} : i \in DOMAIN out}

\* C26: the UIDs assigned are exactly 1..n, n the number of distinct term
\* values that have passed through Unmarshal; these are the values of the
\* returned statements, a suppressed duplicate bringing no value and no UID
\* of its own; so every assigned UID is the UID of a term of a returned
\* statement.
C26_UIDsAreDense ==
    /\ {ids[v] : v \in DOMAIN ids} = 1..Cardinality(ReturnedValues)
    /\ DOMAIN ids = ReturnedValues
    /\ \A x \in dropped : \A t \in TermsOf(x.stmt) :
           t.Value \in ReturnedValues /\ t.UID = ids[t.Value]
    /\ \A v \in DOMAIN ids : \E i \in DOMAIN out : \E t \in TermsOf(out[i].stmt) :
           t.Value = v /\ t.UID = ids[v]

\* C26 happens: a duplicate is suppressed after a Reset, in a session that
\* has assigned five UIDs
C26_Witness ==
    /\ atReset.ok
    /\ \E x \in dropped : x.origin.stream = 2
    /\ Cardinality(DOMAIN ids) >= 5

\* C27, as stated: after Reset has returned an error, the next call of
\* Unmarshal or UnmarshalLocal does not crash, and does not return a
\* statement of an earlier stream than the one Reset switched to.
C27_FailedResetIsClean ==
    [][((Unmarshal \/ UnmarshalLocal) /\ res.op = "Reset" /\ res.err # "nil")
           => /\ res'.err # "panic"
              /\ res'.err = "nil" => out'[Len(out')].origin.stream = stream']_vars

\* the blank node restriction.collect gives the restriction r under the
\* anchor about and the parent predicate in
LabelOf(r, about, in) ==
    restrictionCollect([dst |-> <<>>, fail |-> "none"], r, about, in).dst[1].Object.Value

\* C28, as stated: the blank node of a Restriction expanded under an anchor
\* differs from the blank node of every Restriction that differs from it in
\* anchor, parent predicate, onProperty or someValuesFrom.
C28_LabelsInjective ==
    (pure.fn = "restrict" /\ pure.val # <<>>)
        => \A r \in Restrictions \cup TextRestrictions : \A a \in Anchors :
               <<r, a.about, a.in>> # <<pure.arg.r, pure.arg.about, pure.arg.in>>
                   => LabelOf(r, a.about, a.in) # Appended[1].Object.Value

\* C29, as stated, for the terms of one statement: two terms of a statement
\* returned by UnmarshalLocal that have the same kind and the same
\* compacted text have the same UID.
C29_CompactionIsInjective ==
    (res.op = "UnmarshalLocal" /\ res.err = "nil")
        => \A t, u \in TermsOf(res.stmt) : t.Value = u.Value => t.UID = u.UID

\* C30: a call of Unmarshal or UnmarshalLocal that follows one that
\* returned io.EOF, with no Reset between them, returns io.EOF and no
\* statement, does not crash, and leaves the identifier table and the seen
\* set as they were.
C30_EOFIsFinal ==
    [][(res.op \in {"Unmarshal", "UnmarshalLocal"} /\ res.err = "EOF"
            /\ (Unmarshal \/ UnmarshalLocal))
           => /\ res' \in {Result("Unmarshal", "EOF", NilStmt),
                           Result("UnmarshalLocal", "EOF", NilStmt)}
              /\ phase' = "live"
              /\ out' = out
              /\ ids' = ids
              /\ seen' = seen]_vars

\* C30 happens: after statements were returned and their identifiers
\* assigned, the end of the stream is reported, by UnmarshalLocal as by
\* Unmarshal before it
C30_Witness ==
    /\ res = Result("UnmarshalLocal", "EOF", NilStmt)
    /\ xml.state = "eof"
    /\ phase = "live"
    /\ Len(out) >= 2
    /\ Cardinality(DOMAIN ids) >= 3
    /\ seen # {}

====
